---- MODULE Spec2Model ----
(***************************************************************************)
(* A model of gn: the write-scheduling engine (SocketManager::write), its  *)
(* policy constructor (WriteOptions::from_flags) and the Statistics        *)
(* accumulator, as found in src/src/manager.rs and src/src/statistics.rs.  *)
(*                                                                         *)
(* Time is a discrete clock `now`, counted in ticks of 1/TicksPerSec       *)
(* seconds; durations are counted in the same ticks.  Init is the state    *)
(* right after Statistics::new().  Before write() is called, time may pass *)
(* (Idle) and the Statistics may be used through its public methods        *)
(* (PriorCall); SocketManager_new then takes any host, payload length      *)
(* (0 included), protocol and policy within the bounds, and write() runs.  *)
(* During write() time passes while a send is awaited.  write_stream has   *)
(* no timeout: a send takes any number of ticks up to MaxSendTicks.  The   *)
(* clock is drawn up to MaxTime: write() is called no later than MaxTime,  *)
(* past MaxTime every send takes the least number of ticks allowed, and    *)
(* every run is followed to its end.  Under a duration-bound policy a loop *)
(* may have only its first MaxFastSends sends return in the tick in which  *)
(* they were issued, the loop of each address and each worker counting     *)
(* its own (each task records in `fresh` whether its send was issued in    *)
(* the tick at hand).  A spawned task is first polled within the tick of   *)
(* its spawn.  The network is the environment: every send attempt ends in  *)
(* one of NetOutcomes.  A task runs from one await to the next in one      *)
(* step.  host.to_socket_addrs() is evaluated by every call of write()     *)
(* and may yield another result each time.                                 *)
(* Further specifications put the Statistics on its own (StatsSpec), let   *)
(* a send never return (HangSpec), call write() again on the same          *)
(* SocketManager, at once or later, after Ok or after Err (AgainSpec),     *)
(* and model the listener, Server::serve of src/src/server.rs (ServeSpec). *)
(* Counters are u64 in the source; the bounds below keep every value far   *)
(* below 2^64, so no wrap-around is reachable in the model.  The f64 that  *)
(* success_percentage returns is worked out bit by bit, each of its two    *)
(* operations rounded to nearest, ties to even.                            *)
(***************************************************************************)
EXTENDS Integers, Sequences, FiniteSets, Bags, TLC

\* ------------------------------------------------------------------ bounds
MaxCount == 3
MaxDur == 2
MaxConcDur == 1
MaxConc == 2
MaxPayload == 1
MaxAddrs == 2
MaxFastSends == 1
MaxTime == 2
MaxSendTicks == 2
TicksPerSec == 2
MaxCalls == 5
MaxEvents == 4
MaxPrior == 1

\* ------------------------------------------------------------ option types
None == [some |-> FALSE]
Some(x) == [some |-> TRUE, val |-> x]

Count(n) == [kind |-> "Count", count |-> n]
Duration(d) == [kind |-> "Duration", duration |-> d]
CountOrDuration(n, d) == [kind |-> "CountOrDuration", count |-> n, duration |-> d]
ConcurrencyWithCount(c, n) == [kind |-> "ConcurrencyWithCount", concurrency |-> c, count |-> n]
ConcurrencyWithDuration(c, d) == [kind |-> "ConcurrencyWithDuration", concurrency |-> c, duration |-> d]

WriteOptions ==
    {Count(n) : n \in 0..MaxCount}
    \cup {Duration(d) : d \in 0..MaxDur}
    \cup {CountOrDuration(n, d) : n \in 0..MaxCount, d \in 0..MaxDur}
    \cup {ConcurrencyWithCount(c, n) : c \in 0..MaxConc, n \in 0..MaxCount}
    \cup {ConcurrencyWithDuration(c, d) : c \in 0..MaxConc, d \in 0..MaxConcDur}

NoOptions == [kind |-> "unset"]
NoFlags == [given |-> FALSE]
Flags(n, d, c) == [given |-> TRUE, count |-> n, duration |-> d, concurrency |-> c]

FlagSet ==
    {Flags(n, d, c) : n \in 0..MaxCount,
                      d \in {None} \cup {Some(x) : x \in 0..MaxDur},
                      c \in {None} \cup {Some(x) : x \in 0..MaxConc}}

\* Mutant: a count of 0 is raised to the default of 1.
from_flags_min_one(count, duration, concurrency) ==
    CASE duration.some /\ ~concurrency.some /\ count > 1 -> CountOrDuration(count, duration.val)
      [] duration.some /\ ~concurrency.some -> Duration(duration.val)
      [] ~duration.some /\ concurrency.some -> ConcurrencyWithCount(concurrency.val, count)
      [] duration.some /\ concurrency.some -> ConcurrencyWithDuration(concurrency.val, duration.val)
      [] ~duration.some /\ ~concurrency.some -> Count(IF count = 0 THEN 1 ELSE count)

\* Mutant: the guard of the first arm reads count >= 1.
from_flags_ge_one(count, duration, concurrency) ==
    CASE duration.some /\ ~concurrency.some /\ count >= 1 -> CountOrDuration(count, duration.val)
      [] duration.some /\ ~concurrency.some -> Duration(duration.val)
      [] ~duration.some /\ concurrency.some -> ConcurrencyWithCount(concurrency.val, count)
      [] duration.some /\ concurrency.some -> ConcurrencyWithDuration(concurrency.val, duration.val)
      [] ~duration.some /\ ~concurrency.some -> Count(count)

\* Mutant: the two fields of ConcurrencyWithCount are passed in the other order.
from_flags_swapped(count, duration, concurrency) ==
    CASE duration.some /\ ~concurrency.some /\ count > 1 -> CountOrDuration(count, duration.val)
      [] duration.some /\ ~concurrency.some -> Duration(duration.val)
      [] ~duration.some /\ concurrency.some -> ConcurrencyWithCount(count, concurrency.val)
      [] duration.some /\ concurrency.some -> ConcurrencyWithDuration(concurrency.val, duration.val)
      [] ~duration.some /\ ~concurrency.some -> Count(count)

\* Mutant: the count guard is tried before concurrency is looked at
\* (`(Some(d), _) if count > 1`).
from_flags_count_first(count, duration, concurrency) ==
    CASE duration.some /\ count > 1 -> CountOrDuration(count, duration.val)
      [] duration.some /\ ~concurrency.some -> Duration(duration.val)
      [] ~duration.some /\ concurrency.some -> ConcurrencyWithCount(concurrency.val, count)
      [] duration.some /\ concurrency.some -> ConcurrencyWithDuration(concurrency.val, duration.val)
      [] ~duration.some /\ ~concurrency.some -> Count(count)

\* WriteOptions::from_flags: the match on (duration, concurrency), arm by arm.
from_flags(count, duration, concurrency) ==
    CASE duration.some /\ ~concurrency.some /\ count > 1 -> CountOrDuration(count, duration.val)
      [] duration.some /\ ~concurrency.some -> Duration(duration.val)
      [] ~duration.some /\ concurrency.some -> ConcurrencyWithCount(concurrency.val, count)
      [] duration.some /\ concurrency.some -> ConcurrencyWithDuration(concurrency.val, duration.val)
      [] ~duration.some /\ ~concurrency.some -> Count(count)

\* -------------------------------------------------------------- Statistics
\* f64 values that record_throughput can store: a finite quotient num/den
\* in lowest terms (two quotients of small integers are the same f64 exactly
\* when they are the same fraction; 0.0 is F64(0, 1)), +infinity (x / 0.0
\* with x > 0) or NaN (0.0 / 0.0).
F64(n, d) == [kind |-> "finite", num |-> n, den |-> d]
F64Inf == [kind |-> "inf"]
F64NaN == [kind |-> "nan"]

RECURSIVE Gcd(_, _)
Gcd(a, b) == IF b = 0 THEN a ELSE Gcd(b, a % b)

\* Mutant: a zero divisor is guarded (`if secs == 0 { 0.0 }`).
F64Div_guarded(a, b) ==
    IF b # 0 THEN F64(a \div Gcd(a, b), b \div Gcd(a, b)) ELSE F64(0, 1)

\* a as f64 / b as f64, for unsigned a and b.
F64Div(a, b) ==
    IF b # 0 THEN F64(a \div Gcd(a, b), b \div Gcd(a, b))
    ELSE IF a > 0 THEN F64Inf ELSE F64NaN

Statistics_new(t) ==
    [start_time |-> t, total_bytes |-> 0, success_count |-> 0,
     failure_count |-> 0, throughput |-> F64(0, 1)]

\* Mutant: the total counts the successful writes, not their bytes.
increment_total_writes(st, inc) == [st EXCEPT !.total_bytes = @ + 1]

increment_total(st, inc) == [st EXCEPT !.total_bytes = @ + inc]
record_success(st) == [st EXCEPT !.success_count = @ + 1]
record_failure(st) == [st EXCEPT !.failure_count = @ + 1]
request_count(st) == st.success_count + st.failure_count
successful_requests(st) == st.success_count
total_bytes(st) == st.total_bytes

\* ------------------------------------------------------ IEEE-754 binary64
\* F64(n, d) stands for the f64 nearest to n / d, the result of one correctly
\* rounded division.  Where a second operation rounds again the bits are
\* worked out: a positive f64 is its biased exponent and the 52 bits of its
\* fraction, most significant first (for 33.33333333333333, bits
\* 4040aaaaaaaaaaaa, the exponent is 1028 and the fraction 0000 1010 1010 ..).
Binary64(e, f) == [kind |-> "binary64", exp |-> e, frac |-> f]

Zeros(k) == [i \in 1..k |-> 0]

\* +0.0
Binary64Zero == Binary64(0, Zeros(52))

\* The power of two e with 2^e <= n / d < 2^(e + 1), for n, d > 0.
RECURSIVE Exponent(_, _)
Exponent(n, d) ==
    IF n >= 2 * d THEN Exponent(n, 2 * d) + 1
    ELSE IF n < d THEN Exponent(2 * n, d) - 1
    ELSE 0

\* n / d scaled by that power of two: a pair <<m, c>> with c <= m < 2 * c.
RECURSIVE Scaled(_, _)
Scaled(n, d) ==
    IF n >= 2 * d THEN Scaled(n, 2 * d)
    ELSE IF n < d THEN Scaled(2 * n, d)
    ELSE <<n, d>>

\* 2^k mod d, by repeated squaring.
RECURSIVE Pow2Mod(_, _)
Pow2Mod(k, d) ==
    IF k = 0 THEN 1 % d
    ELSE LET h == Pow2Mod(k \div 2, d)
         IN (h * h * (IF k % 2 = 1 THEN 2 ELSE 1)) % d

\* What is left of r after k binary digits of r / d: r * 2^k mod d.
Remainder(r, d, k) == (r * Pow2Mod(k, d)) % d

\* The first k binary digits of r / d after the point, for 0 <= r < d.
Digits(r, d, k) == [i \in 1..k |-> (2 * Remainder(r, d, i - 1)) \div d]

\* The binary digits of the natural number n, none for 0.
RECURSIVE NatBits(_)
NatBits(n) == IF n = 0 THEN <<>> ELSE NatBits(n \div 2) \o <<n % 2>>

\* The natural number with the binary digits b.
RECURSIVE NatOf(_)
NatOf(b) ==
    IF b = <<>> THEN 0 ELSE 2 * NatOf(SubSeq(b, 1, Len(b) - 1)) + b[Len(b)]

\* The digits b with one added in the last place (all zeros on overflow).
Inc(b) ==
    LET zeros == {i \in 1..Len(b) : b[i] = 0}
    IN IF zeros = {} THEN Zeros(Len(b))
       ELSE LET last == CHOOSE i \in zeros : \A j \in zeros : j <= i
            IN [i \in 1..Len(b) |-> IF i < last THEN b[i]
                                     ELSE IF i = last THEN 1 ELSE 0]

\* The f64 with the 53 significant digits m (the first is 1) and the power
\* of two e of the first digit, rounded up by one unit in the last place
\* when up is true.
Rounded(m, e, up) ==
    IF ~up THEN Binary64(e + 1023, Tail(m))
    ELSE IF \A i \in 1..Len(m) : m[i] = 1 THEN Binary64(e + 1024, Zeros(52))
    ELSE Binary64(e + 1023, Tail(Inc(m)))

\* The f64 nearest to n / d, ties to even, for naturals n and d > 0.
RoundedQuotient(n, d) ==
    IF n = 0 THEN Binary64Zero
    ELSE LET m == Scaled(n, d)[1]
             c == Scaled(n, d)[2]
             sig == <<1>> \o Digits(m - c, c, 52)
             rest == Remainder(m - c, c, 52)
         IN Rounded(sig, Exponent(n, d),
                    2 * rest > c \/ (2 * rest = c /\ sig[53] = 1))

RECURSIVE Pow2(_)
Pow2(k) == IF k = 0 THEN 1 ELSE 2 * Pow2(k - 1)

\* Long multiplication takes LimbBits binary digits at a time.
LimbBits == 8
Limb == Pow2(LimbBits)

\* The LimbBits binary digits of n < Limb, leading zeros kept.
LimbDigits(n) == [i \in 1..LimbBits |-> (n \div Pow2(LimbBits - i)) % 2]

\* The digits of b * k + carry, for digits b and naturals k and carry.
RECURSIVE TimesDigits(_, _, _)
TimesDigits(b, k, carry) ==
    IF Len(b) <= LimbBits THEN NatBits(NatOf(b) * k + carry)
    ELSE LET low == NatOf(SubSeq(b, Len(b) - LimbBits + 1, Len(b))) * k + carry
         IN TimesDigits(SubSeq(b, 1, Len(b) - LimbBits), k, low \div Limb)
                \o LimbDigits(low % Limb)

\* The f64 nearest to x * k, ties to even, for a positive f64 x and a
\* natural k >= 1.
RoundedProduct(x, k) ==
    LET p == TimesDigits(<<1>> \o x.frac, k, 0)
        cut == SubSeq(p, 54, Len(p))
    IN Rounded(SubSeq(p, 1, 53), x.exp - 1023 + Len(cut),
               /\ cut # <<>>
               /\ cut[1] = 1
               /\ (p[53] = 1 \/ \E i \in 2..Len(cut) : cut[i] = 1))

\* The f64 that F64(n, d), +infinity or NaN stands for, bit by bit.
ToBinary64(x) ==
    IF x.kind = "finite" THEN RoundedQuotient(x.num, x.den) ELSE x

\* The f64 one unit in the last place above the positive f64 x.
NextUp(x) ==
    IF \A i \in 1..52 : x.frac[i] = 1 THEN Binary64(x.exp + 1, Zeros(52))
    ELSE Binary64(x.exp, Inc(x.frac))

\* x * k as f64, for an unsigned k: the quotient x stands for has been
\* rounded to f64, and the product is rounded again.
F64Mul(x, k) ==
    CASE x.kind = "nan" -> F64NaN
      [] x.kind = "inf" -> IF k = 0 THEN F64NaN ELSE F64Inf
      [] x.kind = "finite" ->
            IF x.num = 0 \/ k = 0 THEN Binary64Zero
            ELSE RoundedProduct(RoundedQuotient(x.num, x.den), k)

\* Mutant: the multiplication comes first (`success * 100.0 / (success +
\* failure)`), so that the result is rounded once.
success_percentage_once(st) ==
    ToBinary64(F64Div(st.success_count * 100, st.success_count + st.failure_count))

\* (success / (success + failure)) * 100.0
success_percentage(st) ==
    F64Mul(F64Div(st.success_count, st.success_count + st.failure_count), 100)

\* Mutant: the elapsed time is rounded up to whole seconds.
as_secs_ceil(ticks) == (ticks + TicksPerSec - 1) \div TicksPerSec

\* Duration::as_secs: the whole seconds of a duration, the rest dropped.
as_secs(ticks) == ticks \div TicksPerSec
record_throughput(st, t) ==
    [st EXCEPT !.throughput = F64Div(st.total_bytes, as_secs(t - st.start_time))]

\* ------------------------------------------------------------ write_stream
Ok(b) == [ok |-> TRUE, val |-> b]
Err == [ok |-> FALSE]
NetOutcomes == {"ok", "setup_err", "io_err"}

\* One send attempt.  Tcp: connect (setup_err), write_all (io_err), then the
\* payload length.  Udp: bind (setup_err), send_to (io_err), then the number
\* of bytes send_to reports, which for one datagram is the payload length.
write_stream(proto, len, net) ==
    IF proto = "Tcp"
    THEN (IF net = "setup_err" THEN Err ELSE IF net = "io_err" THEN Err ELSE Ok(len))
    ELSE (IF net = "setup_err" THEN Err ELSE IF net = "io_err" THEN Err ELSE Ok(len))

\* Mutant: a failed send is ignored (`Err(_) => {}`).
tally_drop_failure(st, res) ==
    IF res.ok THEN record_success(increment_total(st, res.val)) ELSE st

\* The body of the match on write_stream's result in the sequential arms.
tally(st, res) ==
    IF res.ok THEN record_success(increment_total(st, res.val)) ELSE record_failure(st)

VARIABLES
    flags,          \* the command line's (count, duration, concurrency), or NoFlags
    write_options,  \* SocketManager.write_options
    host,           \* what host.to_socket_addrs() yields in the call of write() at
                    \* hand: Err, or Ok(number of addresses)
    input_len,      \* SocketManager.input.len()
    protocol,       \* SocketManager.protocol
    stats,          \* SocketManager.stats
    now,            \* the clock
    pc,             \* the await (or end) the task running write() is at
    addr_idx,       \* how many addresses `for addr in addrs` has taken
    sent,           \* the loop counter of the Count and CountOrDuration arms
    for_duration,   \* the Instant taken at the start of a duration arm
    requests_per_task,
    futs,           \* the FuturesUnordered: a bag holding, for every JoinHandle
                    \* not yet yielded, the state of the task it belongs to
    ret,            \* what write() returned
    issued,         \* history: send attempts started
    issued_before,  \* history: send attempts started before `for addr in addrs`
                    \* took the address at hand
    net_ok,         \* history: send attempts the network completed
    net_err,        \* history: send attempts the network failed
    entry,          \* history: which call of write() on this SocketManager is
                    \* running and what the Statistics held when it was entered
    calls,          \* history: the calls made on a Statistics on its own
    server          \* the listener: Server's fields and where serve() is

vars == <<flags, write_options, host, input_len, protocol, stats, now, pc, addr_idx,
          sent, for_duration, requests_per_task, futs, ret, issued, issued_before,
          net_ok, net_err, entry, calls, server>>

\* write() has not been called.
NoEntry ==
    [run |-> 0, at |-> 0, total_bytes |-> 0, success_count |-> 0,
     failure_count |-> 0, throughput |-> F64(0, 1)]

\* What is kept of call number n of write(), entered at tick t with the
\* Statistics st.
EntryAt(n, st, t) ==
    [run |-> n, at |-> t, total_bytes |-> st.total_bytes,
     success_count |-> st.success_count, failure_count |-> st.failure_count,
     throughput |-> st.throughput]

\* No call has been made on the Statistics from outside write().
NoCalls ==
    [record_success |-> 0, record_failure |-> 0, increment_total |-> 0, sum |-> 0,
     record_throughput |-> 0]

\* No listener has been made.
NoServer == [pc |-> "none"]

Pending == [kind |-> "pending"]
RetOk(v) == [kind |-> "Ok", val |-> v]
RetErr == [kind |-> "Err"]

\* host.to_socket_addrs(): an error, or an iterator over val addresses.
Hosts == {Err} \cup {Ok(k) : k \in 0..MaxAddrs}
Protocols == {"Tcp", "Udp"}

\* The state after Statistics::new(), at the origin of the clock: nothing is
\* recorded and no SocketManager has been built.
Init ==
    /\ flags = NoFlags
    /\ write_options = NoOptions
    /\ host = Ok(0)
    /\ input_len = 0
    /\ protocol = "Tcp"
    /\ stats = Statistics_new(0)
    /\ now = 0
    /\ pc = "idle"
    /\ addr_idx = 0
    /\ sent = 0
    /\ for_duration = 0
    /\ requests_per_task = 0
    /\ futs = EmptyBag
    /\ ret = Pending
    /\ issued = 0
    /\ issued_before = 0
    /\ net_ok = 0
    /\ net_err = 0
    /\ entry = NoEntry
    /\ calls = NoCalls
    /\ server = NoServer

\* The state of bin/gn.rs main once the command line is parsed, before
\* from_flags is applied to it.
InitFlags ==
    /\ flags \in FlagSet
    /\ write_options = NoOptions
    /\ host \in {Ok(1)}
    /\ input_len \in {1, MaxPayload}
    /\ protocol \in Protocols
    /\ stats = Statistics_new(0)
    /\ now = 0
    /\ pc = "main"
    /\ addr_idx = 0
    /\ sent = 0
    /\ for_duration = 0
    /\ requests_per_task = 0
    /\ futs = EmptyBag
    /\ ret = Pending
    /\ issued = 0
    /\ issued_before = 0
    /\ net_ok = 0
    /\ net_err = 0
    /\ entry = NoEntry
    /\ calls = NoCalls
    /\ server = NoServer

\* ------------------------------------------------------------------ helpers
IsSequentialKind == write_options.kind \in {"Count", "Duration", "CountOrDuration"}
IsConcurrentKind == write_options.kind \in {"ConcurrencyWithCount", "ConcurrencyWithDuration"}
HasDuration == write_options.kind \in {"Duration", "CountOrDuration", "ConcurrencyWithDuration"}

\* Mutant: the comparison is strict (`elapsed() > *duration`).
elapsed_gt(since, t, d) == t - since > d

\* Instant::elapsed() >= *duration
elapsed_ge(since, t, d) == t - since >= d

\* Mutant: the Count arm iterates over `0..=count`.
loop_continues_inclusive(opts, s, since, t) ==
    CASE opts.kind = "Count" -> s <= opts.count
      [] opts.kind = "Duration" -> ~(t - since >= opts.duration)
      [] opts.kind = "CountOrDuration" ->
            ~(s = opts.count \/ t - since >= opts.duration)

\* Mutant: CountOrDuration stops only when both limits are reached
\* (`sent >= count && elapsed() >= *duration`).
loop_continues_both(opts, s, since, t) ==
    CASE opts.kind = "Count" -> s < opts.count
      [] opts.kind = "Duration" -> ~(t - since >= opts.duration)
      [] opts.kind = "CountOrDuration" ->
            ~(s >= opts.count /\ t - since >= opts.duration)

\* Mutant: a duration loop stops one tick before its time
\* (`elapsed() + tick >= *duration`).
loop_continues_early(opts, s, since, t) ==
    CASE opts.kind = "Count" -> s < opts.count
      [] opts.kind = "Duration" -> ~(t - since + 1 >= opts.duration)
      [] opts.kind = "CountOrDuration" ->
            ~(s = opts.count \/ t - since + 1 >= opts.duration)

\* Whether the sequential arm's loop goes on to one more send: `0..count` has
\* a next element, or the `if` at the head of a duration loop does not break.
\* s is the number of iterations begun (Count) or the value of `sent`.
loop_continues(opts, s, since, t) ==
    CASE opts.kind = "Count" -> s < opts.count
      [] opts.kind = "Duration" -> ~elapsed_ge(since, t, opts.duration)
      [] opts.kind = "CountOrDuration" ->
            ~(s = opts.count \/ elapsed_ge(since, t, opts.duration))

\* Mutant: the division rounds up, so that no requested write is dropped.
per_task_ceil(count, concurrency) == (count + concurrency - 1) \div concurrency

\* let requests_per_task = count / concurrency (u64 division; the caller has
\* already panicked when concurrency is 0).
per_task(count, concurrency) == count \div concurrency

\* A spawned task before its first poll.  fresh is history: whether the send
\* the task has in flight was issued in the tick at hand.
NewTask ==
    [pc |-> "start", for_duration |-> 0, iter |-> 0,
     task_bytes |-> 0, success |-> 0, failure |-> 0, fresh |-> FALSE]

\* Whether a worker's loop goes on to one more send.
worker_continues(opts, t, per, clock) ==
    IF opts.kind = "ConcurrencyWithCount"
    THEN t.iter < per
    ELSE ~elapsed_ge(t.for_duration, clock, opts.duration)

\* Mutant: a worker takes no Instant of its own and measures from the
\* origin of the clock.
worker_init_epoch(opts, t, clock) == t

\* The locals a worker sets before its loop: the duration arm takes an Instant.
worker_init(opts, t, clock) ==
    IF opts.kind = "ConcurrencyWithDuration" THEN [t EXCEPT !.for_duration = clock] ELSE t

\* The bag B with one copy of t replaced by one copy of u.
replace_one(B, t, u) == (B (-) SetToBag({t})) (+) SetToBag({u})

\* c copies of a newly spawned task.
spawn_all(c) == [t \in {x \in {NewTask} : c > 0} |-> c]

\* The head of a worker's loop: start one more send, or return the triple.
worker_loop(opts, t, per, clock) ==
    IF worker_continues(opts, t, per, clock)
    THEN [t EXCEPT !.pc = "sending",
                   !.iter = IF opts.kind = "ConcurrencyWithCount" THEN @ + 1 ELSE @,
                   !.fresh = TRUE]
    ELSE [t EXCEPT !.pc = "done", !.fresh = FALSE]

\* Mutant: a worker ignores a failed send (`Err(_) => {}`).
worker_tally_drop_failure(t, res) ==
    IF res.ok
    THEN [t EXCEPT !.task_bytes = @ + res.val, !.success = @ + 1]
    ELSE t

\* The body of the match on write_stream's result inside a worker.
worker_tally(t, res) ==
    IF res.ok
    THEN [t EXCEPT !.task_bytes = @ + res.val, !.success = @ + 1]
    ELSE [t EXCEPT !.failure = @ + 1]

\* A JoinHandle is ready once its task has returned or has terminated abnormally.
ready(t) == t.pc \in {"done", "aborted"}

\* Mutant: a JoinError is replaced by an empty triple (`task.unwrap_or_default()`).
join_default(t) ==
    IF t.pc = "aborted" THEN Ok(<<0, 0, 0>>)
    ELSE Ok(<<t.task_bytes, t.success, t.failure>>)

\* What awaiting the JoinHandle yields: the task's triple, or a JoinError.
join(t) ==
    IF t.pc = "aborted" THEN Err
    ELSE Ok(<<t.task_bytes, t.success, t.failure>>)

RECURSIVE repeat_success(_, _)
repeat_success(st, n) == IF n = 0 THEN st ELSE repeat_success(record_success(st), n - 1)
RECURSIVE repeat_failure(_, _)
repeat_failure(st, n) == IF n = 0 THEN st ELSE repeat_failure(record_failure(st), n - 1)

\* Mutant: the fold stores a worker's triple over the counters
\* (`store` where the code has `fetch_add`).
fold_overwrite(st, triple) ==
    [st EXCEPT !.total_bytes = triple[1],
               !.success_count = triple[2],
               !.failure_count = triple[3]]

\* Mutant: the fold leaves out the loop over failure_count.
fold_skip_failures(st, triple) ==
    repeat_success(increment_total(st, triple[1]), triple[2])

\* The body of the fold loop for one worker's triple.
fold(st, triple) ==
    repeat_failure(repeat_success(increment_total(st, triple[1]), triple[2]), triple[3])

\* The task in state t once the clock has moved on by dt ticks: a send it has
\* in flight is no longer one issued in the tick at hand.
aged_task(t, dt) == IF dt >= 1 THEN [t EXCEPT !.fresh = FALSE] ELSE t

\* The tasks of the bag B once the clock has moved on by dt ticks.
aged(B, dt) == BagOfAll(LAMBDA t : aged_task(t, dt), B)

\* The ticks by which the clock may have moved on when a send returns.
\* write_stream has no timeout; the clock is followed MaxSendTicks ticks at
\* a time.
Ticks == 0..MaxSendTicks

\* The least number of ticks the send in flight in a sequential loop takes:
\* under a duration-bound policy only the first MaxFastSends sends of the
\* loop of the address at hand may return in the tick in which they were
\* issued.
LeastTicks == IF HasDuration /\ issued - issued_before > MaxFastSends THEN 1 ELSE 0

\* The ticks the send of a sequential loop may take.  The clock is followed
\* in full up to MaxTime: the send returns at any tick up to MaxTime, and
\* past MaxTime as early as it may.
SendTicks ==
    {dt \in Ticks : /\ dt >= LeastTicks
                    /\ (now + dt <= MaxTime \/ dt = LeastTicks)}

\* The least number of ticks by which the clock moves on when the send of
\* the worker in state t returns: under a duration-bound policy only the
\* first MaxFastSends sends of a worker may return in the tick in which they
\* were issued.
WorkerLeastTicks(t) ==
    IF HasDuration /\ t.success + t.failure >= MaxFastSends /\ t.fresh THEN 1 ELSE 0

\* The ticks by which the clock may move on when the send of the worker in
\* state t returns; the send itself may have been in flight for ticks
\* already (t.fresh is false), so sends of different workers overlap and
\* take any number of ticks.  The clock is followed in full up to MaxTime,
\* and past MaxTime with every send returning as early as it may.  A
\* spawned task is first polled within the tick in which it was spawned.
WorkerSendTicks(t) ==
    {dt \in Ticks :
        /\ dt >= WorkerLeastTicks(t)
        /\ (now + dt <= MaxTime \/ dt = WorkerLeastTicks(t))
        /\ (\E u \in BagToSet(futs) : u.pc = "start") => dt = 0}

\* ------------------------------------------------------------------ actions
\* bin/gn.rs main: from_flags, Statistics::new, SocketManager::new.
FromFlags ==
    /\ pc = "main"
    /\ write_options' = from_flags(flags.count, flags.duration, flags.concurrency)
    /\ stats' = Statistics_new(now)
    /\ pc' = "write"
    /\ UNCHANGED <<flags, host, input_len, protocol, now, addr_idx, sent, for_duration,
                   requests_per_task, futs, ret, issued, net_ok, net_err>>
    /\ UNCHANGED <<entry, calls, server, issued_before>>

\* The calls made from outside write() on the Statistics.
CallsMade ==
    calls.record_success + calls.record_failure + calls.increment_total
        + calls.record_throughput

CallRecordSuccess ==
    /\ pc = "idle"
    /\ CallsMade < MaxCalls
    /\ stats' = record_success(stats)
    /\ calls' = [calls EXCEPT !.record_success = @ + 1]
    /\ UNCHANGED <<flags, write_options, host, input_len, protocol, now, pc, addr_idx,
                   sent, for_duration, requests_per_task, futs, ret, issued, net_ok,
                   net_err, entry, server, issued_before>>

CallRecordFailure ==
    /\ pc = "idle"
    /\ CallsMade < MaxCalls
    /\ stats' = record_failure(stats)
    /\ calls' = [calls EXCEPT !.record_failure = @ + 1]
    /\ UNCHANGED <<flags, write_options, host, input_len, protocol, now, pc, addr_idx,
                   sent, for_duration, requests_per_task, futs, ret, issued, net_ok,
                   net_err, entry, server, issued_before>>

CallIncrementTotal(inc) ==
    /\ pc = "idle"
    /\ CallsMade < MaxCalls
    /\ stats' = increment_total(stats, inc)
    /\ calls' = [calls EXCEPT !.increment_total = @ + 1, !.sum = @ + inc]
    /\ UNCHANGED <<flags, write_options, host, input_len, protocol, now, pc, addr_idx,
                   sent, for_duration, requests_per_task, futs, ret, issued, net_ok,
                   net_err, entry, server, issued_before>>

CallRecordThroughput ==
    /\ pc = "idle"
    /\ CallsMade < MaxCalls
    /\ stats' = record_throughput(stats, now)
    /\ calls' = [calls EXCEPT !.record_throughput = @ + 1]
    /\ UNCHANGED <<flags, write_options, host, input_len, protocol, now, pc, addr_idx,
                   sent, for_duration, requests_per_task, futs, ret, issued, net_ok,
                   net_err, entry, server, issued_before>>

\* The uses made of the Statistics so far: the calls of its methods from
\* outside write() and the calls of write().
UsesMade == CallsMade + entry.run

\* A call made on the Statistics before it is handed to SocketManager::new.
\* The call of write() that is followed comes after MaxPrior uses of the
\* Statistics at most.
PriorCall ==
    /\ UsesMade < MaxPrior
    /\ \/ CallRecordSuccess
       \/ CallRecordFailure
       \/ \E inc \in 0..MaxPayload : CallIncrementTotal(inc)
       \/ CallRecordThroughput

\* Time passes before the Statistics is handed to SocketManager::new.
Idle ==
    /\ pc = "idle"
    /\ now < MaxTime
    /\ now' = now + 1
    /\ UNCHANGED <<flags, write_options, host, input_len, protocol, stats, pc, addr_idx,
                   sent, for_duration, requests_per_task, futs, ret, issued,
                   net_ok, net_err>>
    /\ UNCHANGED <<entry, calls, server, issued_before>>

\* SocketManager::new(host, input, protocol, write_options, stats) and the
\* call of write() on the manager: the Statistics comes as it is.
SocketManager_new(h, len, proto, opts) ==
    /\ pc = "idle"
    /\ host' = h
    /\ input_len' = len
    /\ protocol' = proto
    /\ write_options' = opts
    /\ entry' = EntryAt(1, stats, now)
    /\ pc' = "write"
    /\ UNCHANGED <<flags, stats, now, addr_idx, sent, for_duration,
                   requests_per_task, futs, ret, issued, net_ok, net_err>>
    /\ UNCHANGED <<calls, server, issued_before>>

\* Mutant: an unresolvable host is tallied as one failed write and write()
\* returns Ok(0).
Resolve_as_failure ==
    /\ pc = "write"
    /\ pc' = IF host.ok THEN "for_addr" ELSE "done"
    /\ stats' = IF host.ok THEN stats ELSE record_failure(stats)
    /\ ret' = IF host.ok THEN ret ELSE RetOk(0)
    /\ UNCHANGED <<flags, write_options, host, input_len, protocol, now, addr_idx,
                   sent, for_duration, requests_per_task, futs, issued,
                   net_ok, net_err>>
    /\ UNCHANGED <<entry, calls, server, issued_before>>

\* write(): to_socket_addrs().expect(..)
Resolve ==
    /\ pc = "write"
    /\ pc' = IF host.ok THEN "for_addr" ELSE "panic"
    /\ UNCHANGED <<flags, write_options, host, input_len, protocol, stats, now, addr_idx,
                   sent, for_duration, requests_per_task, futs, ret, issued,
                   net_ok, net_err>>
    /\ UNCHANGED <<entry, calls, server, issued_before>>

\* Mutant: the arm guards the division: with no workers asked for it spawns
\* none and is over at once.
ForAddr_guarded ==
    /\ pc = "for_addr"
    /\ addr_idx < host.val
    /\ addr_idx' = addr_idx + 1
    /\ CASE IsSequentialKind ->
              /\ for_duration' = IF HasDuration THEN now ELSE for_duration
              /\ IF loop_continues(write_options, 0, now, now)
                 THEN /\ pc' = "sending"
                      /\ issued' = issued + 1
                      /\ sent' = IF write_options.kind = "Count" THEN 1 ELSE 0
                 ELSE /\ pc' = "for_addr"
                      /\ issued' = issued
                      /\ sent' = 0
              /\ UNCHANGED <<requests_per_task, futs>>
         [] write_options.kind = "ConcurrencyWithCount" ->
              IF write_options.concurrency = 0
              THEN /\ pc' = "for_addr"
                   /\ UNCHANGED <<sent, for_duration, requests_per_task, futs, issued>>
              ELSE /\ requests_per_task' = per_task(write_options.count, write_options.concurrency)
                   /\ futs' = spawn_all(write_options.concurrency)
                   /\ pc' = "fold"
                   /\ UNCHANGED <<sent, for_duration, issued>>
         [] write_options.kind = "ConcurrencyWithDuration" ->
              /\ futs' = spawn_all(write_options.concurrency)
              /\ pc' = "fold"
              /\ UNCHANGED <<sent, for_duration, requests_per_task, issued>>
    /\ UNCHANGED <<flags, write_options, host, input_len, protocol, stats, now, ret,
                   net_ok, net_err>>
    /\ issued_before' = issued
    /\ UNCHANGED <<entry, calls, server>>

\* `for addr in addrs` takes its next address and `match self.write_options`
\* runs the chosen arm up to its first await: a sequential arm up to its first
\* send (or through an empty loop), a concurrent arm through the spawning of
\* all its workers up to futs.next().
ForAddr ==
    /\ pc = "for_addr"
    /\ addr_idx < host.val
    /\ addr_idx' = addr_idx + 1
    /\ CASE IsSequentialKind ->
              /\ for_duration' = IF HasDuration THEN now ELSE for_duration
              /\ IF loop_continues(write_options, 0, now, now)
                 THEN /\ pc' = "sending"
                      /\ issued' = issued + 1
                      /\ sent' = IF write_options.kind = "Count" THEN 1 ELSE 0
                 ELSE /\ pc' = "for_addr"
                      /\ issued' = issued
                      /\ sent' = 0
              /\ UNCHANGED <<requests_per_task, futs>>
         [] write_options.kind = "ConcurrencyWithCount" ->
              IF write_options.concurrency = 0
              THEN /\ pc' = "panic"
                   /\ UNCHANGED <<sent, for_duration, requests_per_task, futs, issued>>
              ELSE /\ requests_per_task' = per_task(write_options.count, write_options.concurrency)
                   /\ futs' = spawn_all(write_options.concurrency)
                   /\ pc' = "fold"
                   /\ UNCHANGED <<sent, for_duration, issued>>
         [] write_options.kind = "ConcurrencyWithDuration" ->
              /\ futs' = spawn_all(write_options.concurrency)
              /\ pc' = "fold"
              /\ UNCHANGED <<sent, for_duration, requests_per_task, issued>>
    /\ UNCHANGED <<flags, write_options, host, input_len, protocol, stats, now, ret,
                   net_ok, net_err>>
    /\ issued_before' = issued
    /\ UNCHANGED <<entry, calls, server>>

\* write_stream(..).await returns in a sequential loop: the outcome is
\* tallied and the loop runs on to its next send, or ends.
SendDone(net, dt) ==
    /\ pc = "sending"
    /\ dt \in SendTicks
    /\ now' = now + dt
    /\ stats' = tally(stats, write_stream(protocol, input_len, net))
    /\ net_ok' = IF net = "ok" THEN net_ok + 1 ELSE net_ok
    /\ net_err' = IF net = "ok" THEN net_err ELSE net_err + 1
    /\ LET s == IF write_options.kind = "CountOrDuration" THEN sent + 1 ELSE sent
       IN IF loop_continues(write_options, s, for_duration, now')
          THEN /\ pc' = "sending"
               /\ issued' = issued + 1
               /\ sent' = IF write_options.kind = "Count" THEN s + 1 ELSE s
          ELSE /\ pc' = "for_addr"
               /\ issued' = issued
               /\ sent' = s
    /\ UNCHANGED <<flags, write_options, host, input_len, protocol, addr_idx,
                   for_duration, requests_per_task, futs, ret>>
    /\ UNCHANGED <<entry, calls, server, issued_before>>

\* The first poll of a worker in state t: its locals are initialised and its
\* loop runs up to its first send, or ends.
WorkerPoll(t) ==
    /\ t.pc = "start"
    /\ LET u == worker_loop(write_options, worker_init(write_options, t, now),
                            requests_per_task, now)
       IN /\ futs' = replace_one(futs, t, u)
          /\ issued' = IF u.pc = "sending" THEN issued + 1 ELSE issued
    /\ UNCHANGED <<flags, write_options, host, input_len, protocol, stats, now, pc,
                   addr_idx, sent, for_duration, requests_per_task, ret, net_ok, net_err>>
    /\ UNCHANGED <<entry, calls, server, issued_before>>

\* Mutant: the workers share the Statistics (its counters are Arc<AtomicU64>)
\* and record every outcome in it themselves.
WorkerSendDone_shared(t, net, dt) ==
    /\ t.pc = "sending"
    /\ dt \in WorkerSendTicks(t)
    /\ now' = now + dt
    /\ LET u == worker_loop(write_options,
                            worker_tally(t, write_stream(protocol, input_len, net)),
                            requests_per_task, now')
       IN /\ futs' = replace_one(aged(futs, dt), aged_task(t, dt), u)
          /\ issued' = IF u.pc = "sending" THEN issued + 1 ELSE issued
    /\ stats' = tally(stats, write_stream(protocol, input_len, net))
    /\ net_ok' = IF net = "ok" THEN net_ok + 1 ELSE net_ok
    /\ net_err' = IF net = "ok" THEN net_err ELSE net_err + 1
    /\ UNCHANGED <<flags, write_options, host, input_len, protocol, pc,
                   addr_idx, sent, for_duration, requests_per_task, ret>>
    /\ UNCHANGED <<entry, calls, server, issued_before>>

\* write_stream(..).await returns inside a worker in state t: the outcome is
\* tallied in the worker's locals and its loop runs on to its next send, or
\* ends.  The spawned closure captures addr, protocol and input (and
\* requests_per_task or duration): the engine's Statistics is out of its reach.
WorkerSendDone(t, net, dt) ==
    /\ t.pc = "sending"
    /\ dt \in WorkerSendTicks(t)
    /\ now' = now + dt
    /\ LET u == worker_loop(write_options,
                            worker_tally(t, write_stream(protocol, input_len, net)),
                            requests_per_task, now')
       IN /\ futs' = replace_one(aged(futs, dt), aged_task(t, dt), u)
          /\ issued' = IF u.pc = "sending" THEN issued + 1 ELSE issued
    /\ stats' = stats
    /\ net_ok' = IF net = "ok" THEN net_ok + 1 ELSE net_ok
    /\ net_err' = IF net = "ok" THEN net_err ELSE net_err + 1
    /\ UNCHANGED <<flags, write_options, host, input_len, protocol, pc,
                   addr_idx, sent, for_duration, requests_per_task, ret>>
    /\ UNCHANGED <<entry, calls, server, issued_before>>

\* A worker task in state t terminates abnormally (it panics or is
\* cancelled): its JoinHandle will yield a JoinError.
WorkerAbort(t) ==
    /\ t.pc \in {"start", "sending"}
    /\ futs' = replace_one(futs, t, [t EXCEPT !.pc = "aborted", !.fresh = FALSE])
    /\ UNCHANGED <<flags, write_options, host, input_len, protocol, stats, now, pc,
                   addr_idx, sent, for_duration, requests_per_task, ret, issued,
                   net_ok, net_err>>
    /\ UNCHANGED <<entry, calls, server, issued_before>>

\* Mutant: on a JoinError the handles left in futs are aborted before the
\* error is returned.
Fold_abort_rest(t) ==
    /\ pc = "fold"
    /\ ready(t)
    /\ IF join(t).ok
       THEN /\ stats' = fold(stats, join(t).val)
            /\ futs' = futs (-) SetToBag({t})
            /\ UNCHANGED <<pc, ret>>
       ELSE /\ pc' = "err"
            /\ ret' = RetErr
            /\ stats' = stats
            /\ futs' = BagOfAll(LAMBDA u : IF u.pc \in {"start", "sending"}
                                           THEN [u EXCEPT !.pc = "aborted", !.fresh = FALSE] ELSE u,
                                futs (-) SetToBag({t}))
    /\ UNCHANGED <<flags, write_options, host, input_len, protocol, now, addr_idx, sent,
                   for_duration, requests_per_task, issued, net_ok, net_err>>
    /\ UNCHANGED <<entry, calls, server, issued_before>>

\* `while let Some(task) = futs.next().await`: one ready handle is yielded;
\* `task?` returns the JoinError (the handles left in futs are dropped with
\* it, which detaches their tasks: they run on), otherwise the triple is
\* folded into stats.
Fold(t) ==
    /\ pc = "fold"
    /\ ready(t)
    /\ futs' = futs (-) SetToBag({t})
    /\ IF join(t).ok
       THEN /\ stats' = fold(stats, join(t).val)
            /\ UNCHANGED <<pc, ret>>
       ELSE /\ pc' = "err"
            /\ ret' = RetErr
            /\ stats' = stats
    /\ UNCHANGED <<flags, write_options, host, input_len, protocol, now, addr_idx, sent,
                   for_duration, requests_per_task, issued, net_ok, net_err>>
    /\ UNCHANGED <<entry, calls, server, issued_before>>

\* Mutant: the arm is left without awaiting the handles still in futs.
FoldEnd_early ==
    /\ pc = "fold"
    /\ pc' = "for_addr"
    /\ UNCHANGED <<flags, write_options, host, input_len, protocol, stats, now, addr_idx,
                   sent, for_duration, requests_per_task, futs, ret, issued,
                   net_ok, net_err>>
    /\ UNCHANGED <<entry, calls, server, issued_before>>

\* futs.next() yields None: the arm is over for this address.
FoldEnd ==
    /\ pc = "fold"
    /\ futs = EmptyBag
    /\ pc' = "for_addr"
    /\ UNCHANGED <<flags, write_options, host, input_len, protocol, stats, now, addr_idx,
                   sent, for_duration, requests_per_task, futs, ret, issued,
                   net_ok, net_err>>
    /\ UNCHANGED <<entry, calls, server, issued_before>>

\* Mutant: the throughput is taken over the time since write() was called.
Finish_since_entry ==
    /\ pc = "for_addr"
    /\ addr_idx >= host.val
    /\ stats' = [stats EXCEPT !.throughput =
                    F64Div(stats.total_bytes, as_secs(now - entry.at))]
    /\ ret' = RetOk(stats'.total_bytes)
    /\ pc' = "done"
    /\ UNCHANGED <<flags, write_options, host, input_len, protocol, now, addr_idx, sent,
                   for_duration, requests_per_task, futs, issued, net_ok, net_err>>
    /\ UNCHANGED <<entry, calls, server, issued_before>>

\* `for addr in addrs` is over: record_throughput(); Ok(total_bytes())
Finish ==
    /\ pc = "for_addr"
    /\ addr_idx >= host.val
    /\ stats' = record_throughput(stats, now)
    /\ ret' = RetOk(stats'.total_bytes)
    /\ pc' = "done"
    /\ UNCHANGED <<flags, write_options, host, input_len, protocol, now, addr_idx, sent,
                   for_duration, requests_per_task, futs, issued, net_ok, net_err>>
    /\ UNCHANGED <<entry, calls, server, issued_before>>

Next ==
    \/ PriorCall
    \/ Idle
    \/ \E h \in Hosts, len \in 0..MaxPayload, proto \in Protocols, opts \in WriteOptions :
            SocketManager_new(h, len, proto, opts)
    \/ Resolve
    \/ ForAddr
    \/ \E net \in NetOutcomes, dt \in Ticks : SendDone(net, dt)
    \/ \E t \in BagToSet(futs) : WorkerPoll(t)
    \/ \E t \in BagToSet(futs), net \in NetOutcomes, dt \in Ticks :
            WorkerSendDone(t, net, dt)
    \/ \E t \in BagToSet(futs) : WorkerAbort(t)
    \/ \E t \in BagToSet(futs) : Fold(t)
    \/ FoldEnd
    \/ Finish

Spec == Init /\ [][Next]_vars

\* The policy constructor alone: main applies from_flags to the parsed flags.
NextFlags == FromFlags
FlagsSpec == InitFlags /\ [][NextFlags]_vars

\* The engine when no worker task terminates abnormally, the runtime keeps
\* polling the tasks that can run and every send returns: the steps of Next
\* other than WorkerAbort, taken as long as one of them can be.
NextLive ==
    \/ PriorCall
    \/ Idle
    \/ \E h \in Hosts, len \in 0..MaxPayload, proto \in Protocols, opts \in WriteOptions :
            SocketManager_new(h, len, proto, opts)
    \/ Resolve
    \/ ForAddr
    \/ \E net \in NetOutcomes, dt \in Ticks : SendDone(net, dt)
    \/ \E t \in BagToSet(futs) : WorkerPoll(t)
    \/ \E t \in BagToSet(futs), net \in NetOutcomes, dt \in Ticks :
            WorkerSendDone(t, net, dt)
    \/ \E t \in BagToSet(futs) : Fold(t)
    \/ FoldEnd
    \/ Finish

LiveSpec == Init /\ [][NextLive]_vars /\ WF_vars(NextLive)

\* A Statistics used on its own, as in the test `general`: made by
\* Statistics::new, then record_success, record_failure and increment_total
\* called on it in any order, MaxCalls times in all.
InitStats ==
    /\ flags = NoFlags
    /\ write_options = NoOptions
    /\ host = Ok(0)
    /\ input_len = 1
    /\ protocol = "Tcp"
    /\ stats = Statistics_new(0)
    /\ now = 0
    /\ pc = "idle"
    /\ addr_idx = 0
    /\ sent = 0
    /\ for_duration = 0
    /\ requests_per_task = 0
    /\ futs = EmptyBag
    /\ ret = Pending
    /\ issued = 0
    /\ issued_before = 0
    /\ net_ok = 0
    /\ net_err = 0
    /\ entry = NoEntry
    /\ calls = NoCalls
    /\ server = NoServer

NextStats ==
    \/ CallRecordSuccess
    \/ CallRecordFailure
    \/ \E inc \in 0..MaxPayload : CallIncrementTotal(inc)

StatsSpec == InitStats /\ [][NextStats]_vars

\* --------------------------------------------------- sends that never return
\* write_stream has no timeout: a connect, write_all or send_to that never
\* completes leaves its caller at the await for ever.

\* How far the clock is followed while the engine is stalled: until the
\* time elapsed since the loop took its Instant is past the longest duration
\* a policy can set.
MaxHungElapsed == MaxDur + 1

\* The send in flight in a sequential loop never returns.
SendHangs ==
    /\ pc = "sending"
    /\ pc' = "hung"
    /\ UNCHANGED <<flags, write_options, host, input_len, protocol, stats, now, addr_idx,
                   sent, for_duration, requests_per_task, futs, ret, issued,
                   net_ok, net_err>>
    /\ UNCHANGED <<entry, calls, server, issued_before>>

\* Mutant: the hung send blocks the thread every task runs on, so every
\* send in flight hangs with it.
WorkerSendHangs_all(t) ==
    /\ t.pc = "sending"
    /\ futs' = BagOfAll(LAMBDA u : IF u.pc = "sending"
                                   THEN [u EXCEPT !.pc = "hung", !.fresh = FALSE]
                                   ELSE u,
                        futs)
    /\ UNCHANGED <<flags, write_options, host, input_len, protocol, stats, now, pc,
                   addr_idx, sent, for_duration, requests_per_task, ret, issued,
                   net_ok, net_err>>
    /\ UNCHANGED <<entry, calls, server, issued_before>>

\* The send in flight in the worker in state t never returns: that task
\* stays at its await, the other tasks are scheduled as before.
WorkerSendHangs(t) ==
    /\ t.pc = "sending"
    /\ futs' = replace_one(futs, t, [t EXCEPT !.pc = "hung", !.fresh = FALSE])
    /\ UNCHANGED <<flags, write_options, host, input_len, protocol, stats, now, pc,
                   addr_idx, sent, for_duration, requests_per_task, ret, issued,
                   net_ok, net_err>>
    /\ UNCHANGED <<entry, calls, server, issued_before>>

\* The clock runs on while a sequential loop awaits a send that never
\* returns.
HungTick ==
    /\ pc = "hung"
    /\ now - for_duration < MaxHungElapsed
    /\ now' = now + 1
    /\ UNCHANGED <<flags, write_options, host, input_len, protocol, stats, pc, addr_idx,
                   sent, for_duration, requests_per_task, futs, ret, issued,
                   net_ok, net_err>>
    /\ UNCHANGED <<entry, calls, server, issued_before>>

NextHang ==
    \/ PriorCall
    \/ Idle
    \/ \E h \in Hosts, len \in 0..MaxPayload, proto \in Protocols, opts \in WriteOptions :
            SocketManager_new(h, len, proto, opts)
    \/ Resolve
    \/ ForAddr
    \/ \E net \in NetOutcomes, dt \in Ticks : SendDone(net, dt)
    \/ \E t \in BagToSet(futs) : WorkerPoll(t)
    \/ \E t \in BagToSet(futs), net \in NetOutcomes, dt \in Ticks :
            WorkerSendDone(t, net, dt)
    \/ \E t \in BagToSet(futs) : Fold(t)
    \/ FoldEnd
    \/ Finish
    \/ SendHangs
    \/ \E t \in BagToSet(futs) : WorkerSendHangs(t)
    \/ HungTick

\* The engine when a send may never return: a send in flight either returns
\* at some time or hangs, and the tasks that can run are polled.
HangSpec == Init /\ [][NextHang]_vars /\ WF_vars(NextLive)

\* ------------------------------------------------------- write() called again
\* write() takes &mut self and leaves the SocketManager usable: it can be
\* called again, at any later time, on the Statistics the calls before it
\* left behind.

\* The ticks that may pass between the return of write() and the next call:
\* like the first call, the next is made no later than MaxTime.
Gaps == {g \in 0..MaxTime : now + g <= MaxTime}

\* Mutant: write() starts from a fresh Statistics.
WriteAgain_reset(gap, h) ==
    /\ pc \in {"done", "err"}
    /\ UsesMade <= MaxPrior
    /\ gap \in Gaps
    /\ now' = now + gap
    /\ host' = h
    /\ stats' = Statistics_new(now')
    /\ entry' = EntryAt(entry.run + 1, stats, now')
    /\ pc' = "write"
    /\ ret' = Pending
    /\ addr_idx' = 0
    /\ sent' = 0
    /\ for_duration' = 0
    /\ requests_per_task' = 0
    /\ futs' = EmptyBag
    /\ issued' = 0
    /\ issued_before' = 0
    /\ net_ok' = 0
    /\ net_err' = 0
    /\ UNCHANGED <<flags, write_options, input_len, protocol>>
    /\ UNCHANGED <<calls, server>>

\* write() is called again on the same SocketManager, gap ticks after the
\* call before it returned Ok or Err: host.to_socket_addrs() is evaluated by
\* every call and yields h this time, the Statistics is as the call before
\* left it, the locals of write() are new (the tasks whose handles an Err return
\* dropped are no longer the engine's), entry keeps what Statistics holds at
\* the call, and the history of the sends starts again.
WriteAgain(gap, h) ==
    /\ pc \in {"done", "err"}
    /\ UsesMade <= MaxPrior
    /\ gap \in Gaps
    /\ now' = now + gap
    /\ host' = h
    /\ stats' = stats
    /\ entry' = EntryAt(entry.run + 1, stats, now')
    /\ pc' = "write"
    /\ ret' = Pending
    /\ addr_idx' = 0
    /\ sent' = 0
    /\ for_duration' = 0
    /\ requests_per_task' = 0
    /\ futs' = EmptyBag
    /\ issued' = 0
    /\ issued_before' = 0
    /\ net_ok' = 0
    /\ net_err' = 0
    /\ UNCHANGED <<flags, write_options, input_len, protocol>>
    /\ UNCHANGED <<calls, server>>

NextAgain ==
    \/ PriorCall
    \/ Idle
    \/ \E h \in Hosts, len \in 0..MaxPayload, proto \in Protocols, opts \in WriteOptions :
            SocketManager_new(h, len, proto, opts)
    \/ Resolve
    \/ ForAddr
    \/ \E net \in NetOutcomes, dt \in Ticks : SendDone(net, dt)
    \/ \E t \in BagToSet(futs) : WorkerPoll(t)
    \/ \E t \in BagToSet(futs), net \in NetOutcomes, dt \in Ticks :
            WorkerSendDone(t, net, dt)
    \/ \E t \in BagToSet(futs) : Fold(t)
    \/ FoldEnd
    \/ \E t \in BagToSet(futs) : WorkerAbort(t)
    \/ Finish
    \/ \E gap \in 0..MaxTime, h \in Hosts : WriteAgain(gap, h)

AgainSpec == Init /\ [][NextAgain]_vars

\* ---------------------------------------------------------------- listener
\* The payloads a peer may send, as the text they decode to.
Payloads == {"a", "b"}

\* Server::new(addr, protocol, buffer), before serve() is called.  buffer is
\* the sink, the sequence of the chunks it has taken.  History: accepted
\* counts the connections accepted and the datagrams received, read_errs the
\* failed reads and receives, logged the "Unable to read stream" lines
\* written to stderr, errs_before_last_line the value of read_errs when the
\* sink last took a whole line.
Server_new(proto) ==
    [pc |-> "start", protocol |-> proto, listening |-> FALSE, buffer |-> <<>>,
     ret |-> Pending, accepted |-> 0, read_errs |-> 0, logged |-> 0,
     errs_before_last_line |-> 0]

\* How the sink takes a line: all of it, or its first write call (the text)
\* fails, or its second (the line end) does.
SinkOutcomes == {"ok", "text_err", "newline_err"}

\* writeln!(self.buffer, "{s}"): write_fmt hands the sink the text and then
\* the line end, one write_all each, and stops at the first error.  buffer
\* is what the sink has taken, chunk by chunk.
writeln(buffer, line, wr) ==
    CASE wr = "ok" -> [ok |-> TRUE, buffer |-> buffer \o <<line, "\n">>]
      [] wr = "text_err" -> [ok |-> FALSE, buffer |-> buffer]
      [] wr = "newline_err" -> [ok |-> FALSE, buffer |-> buffer \o <<line>>]

\* TcpListener::bind(..).await? / UdpSocket::bind(..).await?, then
\* bind.local_addr()? for the "Listening on" line.
serve_bind(s, bind_ok, addr_ok) ==
    IF bind_ok /\ addr_ok
    THEN [s EXCEPT !.listening = TRUE,
                   !.pc = IF s.protocol = "Tcp" THEN "accept" ELSE "recv"]
    ELSE [s EXCEPT !.pc = "returned", !.ret = RetErr]

\* `while let Ok((mut stream, _addr)) = bind.accept().await`: on an error the
\* loop is left and the unreachable!() after the match is reached.
tcp_accept(s, ok) ==
    IF ok THEN [s EXCEPT !.pc = "read", !.accepted = @ + 1]
    ELSE [s EXCEPT !.pc = "panic"]

\* Mutant: a failed read is propagated (`stream.read_to_string(&mut s).await?`).
tcp_read_fatal(s, res, wr) ==
    IF res.ok
    THEN IF writeln(s.buffer, res.val, wr).ok
         THEN [s EXCEPT !.buffer = writeln(s.buffer, res.val, wr).buffer,
                        !.errs_before_last_line = s.read_errs,
                        !.pc = "accept"]
         ELSE [s EXCEPT !.buffer = writeln(s.buffer, res.val, wr).buffer,
                        !.pc = "returned", !.ret = RetErr]
    ELSE [s EXCEPT !.read_errs = @ + 1, !.pc = "returned", !.ret = RetErr]

\* The body of the accept loop: read_to_string, then the line to the sink
\* (`?` returns the sink's error), or the failure to stderr.
tcp_read(s, res, wr) ==
    IF res.ok
    THEN IF writeln(s.buffer, res.val, wr).ok
         THEN [s EXCEPT !.buffer = writeln(s.buffer, res.val, wr).buffer,
                        !.errs_before_last_line = s.read_errs,
                        !.pc = "accept"]
         ELSE [s EXCEPT !.buffer = writeln(s.buffer, res.val, wr).buffer,
                        !.pc = "returned", !.ret = RetErr]
    ELSE [s EXCEPT !.read_errs = @ + 1, !.logged = @ + 1, !.pc = "accept"]

\* `loop { while let Ok((len, _addr)) = bind.recv_from(&mut buf).await {..} }`:
\* a datagram goes to the sink (`?` returns the sink's error); on an error
\* the inner loop is left and the outer loop enters it again.
udp_recv(s, res, wr) ==
    IF res.ok
    THEN IF writeln(s.buffer, res.val, wr).ok
         THEN [s EXCEPT !.buffer = writeln(s.buffer, res.val, wr).buffer,
                        !.errs_before_last_line = s.read_errs,
                        !.accepted = @ + 1,
                        !.pc = "recv"]
         ELSE [s EXCEPT !.buffer = writeln(s.buffer, res.val, wr).buffer,
                        !.accepted = @ + 1, !.pc = "returned", !.ret = RetErr]
    ELSE [s EXCEPT !.read_errs = @ + 1, !.pc = "recv"]

\* What a read or a receive yields: an error, or a payload.
ReadResults == {Err} \cup {Ok(p) : p \in Payloads}

InitServe ==
    /\ flags = NoFlags
    /\ write_options = NoOptions
    /\ host = Ok(0)
    /\ input_len = 1
    /\ protocol = "Tcp"
    /\ stats = Statistics_new(0)
    /\ now = 0
    /\ pc = "idle"
    /\ addr_idx = 0
    /\ sent = 0
    /\ for_duration = 0
    /\ requests_per_task = 0
    /\ futs = EmptyBag
    /\ ret = Pending
    /\ issued = 0
    /\ issued_before = 0
    /\ net_ok = 0
    /\ net_err = 0
    /\ entry = NoEntry
    /\ calls = NoCalls
    /\ server \in {Server_new(p) : p \in Protocols}

\* The connections, datagrams and failed receives so far.
ServeEvents == server.accepted + server.read_errs

ServeBind(bind_ok, addr_ok) ==
    /\ server.pc = "start"
    /\ server' = serve_bind(server, bind_ok, addr_ok)
    /\ UNCHANGED <<flags, write_options, host, input_len, protocol, stats, now, pc,
                   addr_idx, sent, for_duration, requests_per_task, futs, ret, issued,
                   net_ok, net_err, entry, calls, issued_before>>

TcpAccept(ok) ==
    /\ server.pc = "accept"
    /\ ServeEvents < MaxEvents
    /\ server' = tcp_accept(server, ok)
    /\ UNCHANGED <<flags, write_options, host, input_len, protocol, stats, now, pc,
                   addr_idx, sent, for_duration, requests_per_task, futs, ret, issued,
                   net_ok, net_err, entry, calls, issued_before>>

TcpRead(res, wr) ==
    /\ server.pc = "read"
    /\ server' = tcp_read(server, res, wr)
    /\ UNCHANGED <<flags, write_options, host, input_len, protocol, stats, now, pc,
                   addr_idx, sent, for_duration, requests_per_task, futs, ret, issued,
                   net_ok, net_err, entry, calls, issued_before>>

UdpRecv(res, wr) ==
    /\ server.pc = "recv"
    /\ ServeEvents < MaxEvents
    /\ server' = udp_recv(server, res, wr)
    /\ UNCHANGED <<flags, write_options, host, input_len, protocol, stats, now, pc,
                   addr_idx, sent, for_duration, requests_per_task, futs, ret, issued,
                   net_ok, net_err, entry, calls, issued_before>>

NextServe ==
    \/ \E bind_ok \in BOOLEAN, addr_ok \in BOOLEAN : ServeBind(bind_ok, addr_ok)
    \/ \E ok \in BOOLEAN : TcpAccept(ok)
    \/ \E res \in ReadResults, wr \in SinkOutcomes : TcpRead(res, wr)
    \/ \E res \in ReadResults, wr \in SinkOutcomes : UdpRecv(res, wr)

ServeSpec == InitServe /\ [][NextServe]_vars

\* ------------------------------------------------------------------- claims
Done == pc = "done"
Counters(st) == <<st.total_bytes, st.success_count, st.failure_count>>

\* write() has been called.
Called == entry.run >= 1

\* What the counters held when the call of write() at hand was made.
EntryCounters == <<entry.total_bytes, entry.success_count, entry.failure_count>>

\* The call of write() at hand was made on a fresh Statistics: one that held
\* what Statistics::new() gives it.
FreshAtEntry ==
    /\ Called
    /\ EntryCounters = <<0, 0, 0>>
    /\ entry.throughput = F64(0, 1)

\* What the call of write() at hand has added to each counter.
BytesAdded == stats.total_bytes - entry.total_bytes
SuccessAdded == stats.success_count - entry.success_count
FailureAdded == stats.failure_count - entry.failure_count

\* C1: Count(n) to one resolved address on a fresh Statistics, every send
\* succeeding, payload of s bytes: write() returns n * s, total_bytes = n * s,
\* success_count = n and failure_count = 0, for every n >= 0, every s >= 0
\* and for Tcp and Udp alike.
C1_CountAllSucceed ==
    (Done /\ FreshAtEntry /\ write_options.kind = "Count" /\ host = Ok(1) /\ net_err = 0)
        => /\ ret = RetOk(write_options.count * input_len)
           /\ stats.total_bytes = write_options.count * input_len
           /\ stats.success_count = write_options.count
           /\ stats.failure_count = 0

C1_Witness ==
    /\ Done
    /\ FreshAtEntry
    /\ write_options = Count(MaxCount)
    /\ host = Ok(1)
    /\ net_err = 0
    /\ protocol = "Udp"
    /\ input_len = MaxPayload
    /\ ret = RetOk(MaxCount * MaxPayload)

\* The same run with the empty payload: n successes and no byte.
C1_WitnessEmptyPayload ==
    /\ Done
    /\ FreshAtEntry
    /\ write_options = Count(MaxCount)
    /\ host = Ok(1)
    /\ net_err = 0
    /\ input_len = 0
    /\ stats.success_count = MaxCount
    /\ ret = RetOk(0)

\* A step in which a send of the sequential loop fails.
SeqSendFails == pc = "sending" /\ net_err' = net_err + 1

\* A step in which a send of a worker fails.
WorkerSendFails == pc # "sending" /\ net_err' = net_err + 1

\* C2: a failed send never aborts the attempt loop.  In a sequential loop it
\* adds one to failure_count, leaves total_bytes and success_count alone and
\* the loop goes on (to its next send, or to its regular end); in a worker it
\* does the same to the worker's locals.  A run that returns has issued and
\* counted every attempt, and Count(n) to one address against an endpoint
\* that fails every send has added nothing to success_count, n to
\* failure_count and nothing to total_bytes, and returns the total_bytes it
\* found: on a fresh Statistics success_count = 0, failure_count = n,
\* total_bytes = 0 and write() = Ok(0).
C2_FailureNeverAborts ==
    /\ [][SeqSendFails =>
            /\ stats' = [stats EXCEPT !.failure_count = @ + 1]
            /\ pc' \in {"sending", "for_addr"}
            /\ pc' = "sending" <=>
                 loop_continues(write_options,
                                IF write_options.kind = "CountOrDuration"
                                    THEN sent + 1 ELSE sent,
                                for_duration, now')
            /\ ret' = ret]_vars
    /\ [][WorkerSendFails =>
            \E t \in BagToSet(futs), u \in BagToSet(futs') :
                /\ t.pc = "sending"
                /\ futs' = replace_one(aged(futs, now' - now), aged_task(t, now' - now), u)
                /\ u.failure = t.failure + 1
                /\ u.success = t.success
                /\ u.task_bytes = t.task_bytes
                /\ u.pc \in {"sending", "done"}
                /\ pc' = pc]_vars
    /\ [](Done =>
            /\ FailureAdded = net_err
            /\ issued = net_ok + net_err
            /\ write_options.kind = "Count" => issued = write_options.count * host.val
            /\ (write_options.kind = "Count" /\ host = Ok(1) /\ net_ok = 0) =>
                    /\ SuccessAdded = 0
                    /\ FailureAdded = write_options.count
                    /\ BytesAdded = 0
                    /\ ret = RetOk(entry.total_bytes)
                    /\ FreshAtEntry =>
                          /\ Counters(stats) = <<0, 0, write_options.count>>
                          /\ ret = RetOk(0))

C2_Witness ==
    /\ Done
    /\ FreshAtEntry
    /\ write_options = Count(MaxCount)
    /\ host = Ok(1)
    /\ net_ok = 0
    /\ stats.failure_count = MaxCount
    /\ ret = RetOk(0)

\* C3: when write() returns Ok, what it has added to success_count and to
\* failure_count is together the number of send attempts issued during the
\* run, under every policy and every mix of outcomes: on a fresh Statistics
\* success_count + failure_count is that number.
C3_EveryAttemptCountedOnce ==
    Done => /\ SuccessAdded + FailureAdded = issued
            /\ FreshAtEntry => request_count(stats) = issued

C3_Witness ==
    /\ Done
    /\ FreshAtEntry
    /\ write_options.kind = "ConcurrencyWithDuration"
    /\ write_options.concurrency >= 2
    /\ stats.success_count >= 1
    /\ stats.failure_count >= 2
    /\ issued = stats.success_count + stats.failure_count

\* The spawning step of a concurrent arm.
Spawns == pc = "for_addr" /\ pc' = "fold"

\* The policy is ConcurrencyWithCount(c, n) with c >= 1; Share is n / c.
IsCC == write_options.kind = "ConcurrencyWithCount" /\ write_options.concurrency >= 1
Share == write_options.count \div write_options.concurrency

\* C4: ConcurrencyWithCount(c, n) with c >= 1 spawns exactly c workers per
\* address and each worker that runs to its end has issued exactly n / c
\* attempts; a run that returns has issued c * (n / c) attempts per address,
\* and when every send succeeded it has added (n / c) * c * s bytes per
\* address to the total_bytes it returns (on a fresh Statistics and one
\* address it returns (n / c) * c * s); with n < c no attempt is issued at
\* all.
C4_ConcurrentCountSplit ==
    /\ [][(IsCC /\ Spawns) => BagCardinality(futs') = write_options.concurrency]_vars
    /\ [](IsCC =>
            /\ BagCardinality(futs) <= write_options.concurrency
            /\ \A t \in BagToSet(futs) :
                 /\ t.iter <= Share
                 /\ t.pc = "done" => (t.iter = Share /\ t.success + t.failure = Share)
            /\ write_options.count < write_options.concurrency => issued = 0
            /\ Done => issued = host.val * write_options.concurrency * Share
            /\ (Done /\ net_err = 0) =>
                    ret = RetOk(entry.total_bytes
                                + host.val * Share * write_options.concurrency * input_len)
            /\ (Done /\ net_err = 0 /\ FreshAtEntry /\ host = Ok(1)) =>
                    ret = RetOk(Share * write_options.concurrency * input_len))

C4_Witness ==
    /\ Done
    /\ FreshAtEntry
    /\ write_options = ConcurrencyWithCount(2, 3)
    /\ host = Ok(1)
    /\ net_err = 0
    /\ issued = 2
    /\ input_len = MaxPayload
    /\ ret = RetOk(2 * MaxPayload)

\* A step of a worker task: the bag of tasks changes, none is added or taken.
WorkerStep ==
    /\ futs' # futs
    /\ BagCardinality(futs') = BagCardinality(futs)

\* C5: in the concurrent policies the counters of Statistics change only in
\* the engine's fold, by exactly the triple a finished worker returned, in
\* the step that takes that worker's handle out of futs: no step of a worker
\* changes them.  A step of a worker changes the locals of that one worker
\* and of no other.
C5_WorkersNeverTouchStatistics ==
    /\ [][(IsConcurrentKind /\ Counters(stats') # Counters(stats)) =>
            /\ pc = "fold"
            /\ \E t \in BagToSet(futs) :
                  /\ t.pc = "done"
                  /\ futs' = futs (-) SetToBag({t})
                  /\ stats'.total_bytes = stats.total_bytes + t.task_bytes
                  /\ stats'.success_count = stats.success_count + t.success
                  /\ stats'.failure_count = stats.failure_count + t.failure]_vars
    /\ [][(IsConcurrentKind /\ WorkerStep) =>
            \E t \in BagToSet(futs), u \in BagToSet(futs') :
                futs' = replace_one(aged(futs, now' - now), aged_task(t, now' - now), u)]_vars

\* One worker has been folded while the other, in a send, holds a success
\* in its locals that Statistics has not received.
C5_Witness ==
    /\ pc = "fold"
    /\ BagCardinality(futs) = 1
    /\ write_options.concurrency = 2
    /\ addr_idx = 1
    /\ SuccessAdded >= 1
    /\ FailureAdded >= 1
    /\ \E t \in BagToSet(futs) : t.pc = "sending" /\ t.success >= 1
    /\ SuccessAdded < net_ok

\* At the first address a worker's tallies have been folded into Statistics
\* while a worker of the same batch is still in a send.
FoldedWhileRunning ==
    /\ IsConcurrentKind
    /\ pc = "fold"
    /\ addr_idx = 1
    /\ BagCardinality(futs) < write_options.concurrency
    /\ SuccessAdded + FailureAdded >= 1
    /\ \E t \in BagToSet(futs) : t.pc = "sending"

\* C6: no worker's tallies are folded into Statistics while another worker
\* of the same batch is still issuing sends.
C6_FoldOnlyAfterAllComplete == ~FoldedWhileRunning

\* Under ConcurrencyWithDuration a worker's success is in Statistics while
\* the other worker, with a success of its own, is in a send.
C6_FoldedWhileSending ==
    /\ FoldedWhileRunning
    /\ write_options.kind = "ConcurrencyWithDuration"
    /\ SuccessAdded >= 1
    /\ \E t \in BagToSet(futs) : t.pc = "sending" /\ t.success >= 1

\* A step in which the fold awaits the handle of an aborted task.
JoinFails ==
    /\ pc = "fold"
    /\ \E t \in BagToSet(futs) : t.pc = "aborted" /\ futs' = futs (-) SetToBag({t})

\* C7: when awaiting a worker fails, write() returns the error: no byte
\* total is returned, nothing more is folded, no further address is taken
\* and no throughput is recorded: throughput is what it was when write()
\* was called.
C7_JoinErrorIsFatal ==
    /\ [][JoinFails => (pc' = "err" /\ ret' = RetErr /\ stats' = stats)]_vars
    /\ [][pc = "err" =>
            /\ pc' = "err"
            /\ ret' = ret
            /\ stats' = stats
            /\ addr_idx' = addr_idx
            /\ BagCardinality(futs') = BagCardinality(futs)]_vars
    /\ [](pc = "err" => (ret = RetErr /\ stats.throughput = entry.throughput))
    /\ [](ret.kind = "Ok" => (pc = "done" /\ futs = EmptyBag))

C7_Witness ==
    /\ pc = "err"
    /\ ret = RetErr
    /\ addr_idx < host.val
    /\ SuccessAdded >= 1
    /\ stats.throughput = F64(0, 1)

\* from_flags has been applied to the flags.
Built == pc = "write"

\* C8: from_flags(n, None, None) = Count(n), for every n >= 0.
C8_NoFlagsGivesCount ==
    (Built /\ ~flags.duration.some /\ ~flags.concurrency.some)
        => write_options = Count(flags.count)

C8_Witness ==
    /\ Built
    /\ flags = Flags(0, None, None)
    /\ write_options = Count(0)

\* C9: from_flags(n, Some(d), None) = Duration(d) when n <= 1 and
\* CountOrDuration(n, d) when n > 1.
C9_DurationOnly ==
    (Built /\ flags.duration.some /\ ~flags.concurrency.some)
        => write_options =
              IF flags.count <= 1
              THEN Duration(flags.duration.val)
              ELSE CountOrDuration(flags.count, flags.duration.val)

C9_Witness ==
    /\ Built
    /\ flags = Flags(1, Some(MaxDur), None)
    /\ write_options = Duration(MaxDur)

\* C10: from_flags(n, None, Some(c)) = ConcurrencyWithCount(c, n) for every
\* n and c, c = 0 and n < c included.
C10_ConcurrencyOnly ==
    (Built /\ ~flags.duration.some /\ flags.concurrency.some)
        => write_options = ConcurrencyWithCount(flags.concurrency.val, flags.count)

C10_Witness ==
    /\ Built
    /\ flags = Flags(MaxCount, None, Some(0))
    /\ write_options = ConcurrencyWithCount(0, MaxCount)

\* C11: from_flags(n, Some(d), Some(c)) = ConcurrencyWithDuration(c, d)
\* whatever n is: every other count gives the same policy for the same
\* duration and concurrency.
C11_DurationAndConcurrency ==
    (Built /\ flags.duration.some /\ flags.concurrency.some)
        => /\ write_options =
                ConcurrencyWithDuration(flags.concurrency.val, flags.duration.val)
           /\ \A n \in 0..MaxCount :
                from_flags(n, flags.duration, flags.concurrency) = write_options

C11_Witness ==
    /\ Built
    /\ flags = Flags(MaxCount, Some(1), Some(MaxConc))
    /\ write_options = ConcurrencyWithDuration(MaxConc, 1)

\* A step that starts a send attempt, and a step in which one returns.
SendStarts == issued' = issued + 1
SendReturns == net_ok' + net_err' = net_ok + net_err + 1

IsDur == write_options.kind = "Duration"

\* C12: under Duration(d) the elapsed time since the loop began is checked
\* before every send.  No send starts at a moment when elapsed >= d; when a
\* send returns it is counted, whatever the time, and the loop goes on to
\* its next send exactly when elapsed < d, and is left otherwise; once the
\* loop is left, elapsed >= d; Duration(0) starts no send.
C12_DurationCheckedBeforeEachSend ==
    /\ [][(IsDur /\ SendStarts) => now' - for_duration' < write_options.duration]_vars
    /\ [][(IsDur /\ SendReturns) =>
            /\ request_count(stats') = request_count(stats) + 1
            /\ IF now' - for_duration < write_options.duration
               THEN pc' = "sending" /\ SendStarts
               ELSE pc' = "for_addr" /\ issued' = issued]_vars
    /\ []((IsDur /\ addr_idx > 0 /\ pc \in {"for_addr", "done"}) =>
            now - for_duration >= write_options.duration)
    /\ []((IsDur /\ write_options.duration = 0) => issued = 0)

C12_Witness ==
    /\ Done
    /\ write_options = Duration(MaxDur)
    /\ host = Ok(1)
    /\ issued >= MaxDur + 1
    /\ SuccessAdded + FailureAdded = issued
    /\ now - for_duration = MaxDur

IsCOD == write_options.kind = "CountOrDuration"

\* The attempts made so far to the address at hand under CountOrDuration:
\* those that returned (sent) and the one in flight.
AttemptsThisAddr == sent + (IF pc = "sending" THEN 1 ELSE 0)

\* The loop of each of two addresses had its first send return in the tick
\* in which it was issued and its second send cross d.
C12_WitnessSecondAddress ==
    /\ Done
    /\ write_options = Duration(1)
    /\ host = Ok(2)
    /\ issued = 4
    /\ now - entry.at = 2

\* C13: under CountOrDuration(n, d) the loop stops at whichever comes first
\* of n attempts or elapsed >= d.  The attempts to one address never exceed
\* n (nor the attempts of the run n per address taken); a returning send
\* counts toward n whether it succeeded or failed; no send starts at a
\* moment when elapsed >= d; and after a send returns the loop goes on
\* exactly when fewer than n attempts were made and elapsed < d.
C13_CountOrDurationFirstLimit ==
    /\ [](IsCOD =>
            /\ AttemptsThisAddr <= write_options.count
            /\ issued <= addr_idx * write_options.count)
    /\ [][(IsCOD /\ SendReturns) =>
            /\ sent' = sent + 1
            /\ request_count(stats') = request_count(stats) + 1
            /\ IF sent' < write_options.count
                  /\ now' - for_duration < write_options.duration
               THEN pc' = "sending" /\ SendStarts
               ELSE pc' = "for_addr" /\ issued' = issued]_vars
    /\ [][(IsCOD /\ SendStarts) =>
            /\ now' - for_duration' < write_options.duration
            /\ sent' < write_options.count]_vars
    /\ []((IsCOD /\ addr_idx > 0 /\ pc \in {"for_addr", "done"}) =>
            \/ sent = write_options.count
            \/ now - for_duration >= write_options.duration)

\* The count limit comes first, with failed sends among the n attempts.
C13_Witness ==
    /\ Done
    /\ write_options = CountOrDuration(2, MaxDur)
    /\ host = Ok(1)
    /\ issued = 2
    /\ FailureAdded = 1
    /\ SuccessAdded = 1
    /\ now - for_duration < MaxDur

IsCWD == write_options.kind = "ConcurrencyWithDuration"

\* C14: ConcurrencyWithDuration(c, d) spawns exactly c workers per address;
\* each worker takes its own Instant at its first poll and, after every
\* send, goes on to one more send exactly when its own elapsed time is
\* below d, and returns otherwise; when write() has returned, every worker
\* has been folded and Statistics has received every attempt of the run;
\* and when no worker is aborted, time advances and every send returns,
\* write() does return.
C14_ConcurrentDurationTerminates ==
    /\ [][(IsCWD /\ Spawns) => BagCardinality(futs') = write_options.concurrency]_vars
    /\ [](IsCWD => BagCardinality(futs) <= write_options.concurrency)
    /\ [][(IsCWD /\ WorkerStep) =>
            \E t \in BagToSet(futs), u \in BagToSet(futs') :
                /\ futs' = replace_one(aged(futs, now' - now), aged_task(t, now' - now), u)
                /\ u.for_duration = IF t.pc = "start" THEN now ELSE t.for_duration
                /\ IF now' - u.for_duration < write_options.duration
                   THEN u.pc = "sending"
                   ELSE u.pc = "done"]_vars
    /\ []((IsCWD /\ Done) =>
            /\ futs = EmptyBag
            /\ addr_idx = host.val
            /\ issued = net_ok + net_err
            /\ SuccessAdded = net_ok
            /\ FailureAdded = net_err
            /\ BytesAdded = net_ok * input_len)
    /\ (IsCWD /\ host.ok) ~> Done

\* Two workers, spawned when the Statistics was a second old, have each
\* made a send that returned at once and a send that went on to d.
C14_Witness ==
    /\ Done
    /\ write_options = ConcurrencyWithDuration(MaxConc, MaxConcDur)
    /\ host = Ok(1)
    /\ entry.at >= TicksPerSec
    /\ issued >= 2 * MaxConc
    /\ SuccessAdded >= 1
    /\ FailureAdded >= 1

\* The comparisons of an f64 with 0.0 made on throughput(): x > 0.0, x != 0.0.
F64Gt0(x) == x.kind = "inf" \/ (x.kind = "finite" /\ x.num > 0 /\ x.den > 0)
F64Ne0(x) == ~(x.kind = "finite" /\ x.num = 0)

\* C15: when write() has returned Ok with total_bytes > 0 and at least one
\* whole second has passed since the Statistics was made (however short the
\* run itself), throughput() is a number above 0.0; and when write() has
\* returned Ok with total_bytes > 0, throughput() != 0.0 whatever the time
\* passed.
C15_ThroughputPositive ==
    (Done /\ stats.total_bytes > 0) =>
        /\ as_secs(now - stats.start_time) >= 1 =>
              (stats.throughput.kind = "finite" /\ F64Gt0(stats.throughput))
        /\ F64Ne0(stats.throughput)
        /\ F64Gt0(stats.throughput)

\* The Statistics was a second old when write() was called, and the run
\* took less than a second: the divisor is the age of the Statistics.
C15_Witness ==
    /\ Done
    /\ BytesAdded >= 1
    /\ entry.at - stats.start_time >= TicksPerSec
    /\ now - entry.at < TicksPerSec
    /\ stats.throughput = F64(stats.total_bytes, as_secs(now - stats.start_time))

\* The step in which write() returns Ok.
Returns == pc # "done" /\ pc' = "done"

\* The whole seconds passed since the Statistics was made, at the next state.
WholeSecs == (now' - stats.start_time) \div TicksPerSec

\* C16: throughput is written once in a run, in the step in which write()
\* returns Ok, when every address has been taken, no worker is left and no
\* send is in flight; until then it is what it was when write() was called,
\* the initial 0.0 on a fresh Statistics.  The value written is total_bytes
\* / (the time since the Statistics was made, cut to whole seconds): a
\* division by zero when less than one whole second has passed since then
\* (+infinity when total_bytes > 0, NaN when it is 0).  The step changes no
\* counter.
C16_ThroughputWrittenOnceAtEnd ==
    /\ []((Called /\ pc # "done") => stats.throughput = entry.throughput)
    /\ []((FreshAtEntry /\ pc # "done") => stats.throughput = F64(0, 1))
    /\ [][(Called /\ stats'.throughput # stats.throughput) => Returns]_vars
    /\ [][Returns =>
            /\ pc = "for_addr"
            /\ addr_idx = host.val
            /\ futs = EmptyBag
            /\ issued = net_ok + net_err
            /\ Counters(stats') = Counters(stats)
            /\ IF WholeSecs = 0
               THEN stats'.throughput =
                        IF stats.total_bytes > 0 THEN F64Inf ELSE F64NaN
               ELSE /\ stats'.throughput.kind = "finite"
                    /\ stats'.throughput.den > 0
                    /\ stats'.throughput.num * WholeSecs
                          = stats.total_bytes * stats'.throughput.den]_vars

\* A run of less than a second on a Statistics less than a second old.
C16_Witness ==
    /\ Done
    /\ FreshAtEntry
    /\ stats.total_bytes > 0
    /\ entry.at > stats.start_time
    /\ now - stats.start_time = TicksPerSec - 1
    /\ stats.throughput = F64Inf

\* A run of less than a second on a Statistics a second old divides by the
\* whole second.
C16_WitnessAged ==
    /\ Done
    /\ FreshAtEntry
    /\ stats.total_bytes > 0
    /\ entry.at - stats.start_time = TicksPerSec
    /\ now = entry.at
    /\ stats.throughput = F64(stats.total_bytes, 1)

\* C17: across every step of a run, under every policy, none of total_bytes,
\* success_count and failure_count decreases.
C17_CountersMonotone ==
    [][/\ stats'.total_bytes >= stats.total_bytes
       /\ stats'.success_count >= stats.success_count
       /\ stats'.failure_count >= stats.failure_count]_vars

\* Both workers of the second address have been folded on top of the counts
\* of the first, and those on top of what the Statistics held before.
C17_Witness ==
    /\ Done
    /\ IsConcurrentKind
    /\ write_options.concurrency = 2
    /\ host = Ok(2)
    /\ entry.success_count >= 1
    /\ SuccessAdded >= 2
    /\ FailureAdded >= 2
    /\ BytesAdded = SuccessAdded * input_len

\* The step in which `for addr in addrs` takes an address.
TakesAddr == addr_idx' # addr_idx

\* C18: the addresses the host resolves to are taken one at a time and the
\* policy is run once for each.  When an address is taken, nothing of the
\* addresses before it is left: no send is in flight, no worker is unfolded,
\* and Statistics has received every attempt made so far; a concurrent arm
\* spawns its workers in the very step that takes the address.  write()
\* returns Ok only when all k addresses have been taken.  Under Count(n) the
\* attempts made while address i is at hand lie between (i - 1) * n and
\* i * n, they are exactly i * n when the address is done, and k * n at the
\* end.
C18_OneAddressAtATime ==
    /\ [][TakesAddr =>
            /\ addr_idx' = addr_idx + 1
            /\ addr_idx < host.val
            /\ pc = "for_addr"
            /\ futs = EmptyBag
            /\ issued = net_ok + net_err
            /\ SuccessAdded + FailureAdded = issued]_vars
    /\ [][Spawns => TakesAddr]_vars
    /\ [](host.ok => addr_idx <= host.val)
    /\ [](Done => addr_idx = host.val)
    /\ [](write_options.kind = "Count" =>
            /\ pc = "sending" =>
                  /\ issued > (addr_idx - 1) * write_options.count
                  /\ issued <= addr_idx * write_options.count
            /\ pc \in {"for_addr", "done"} => issued = addr_idx * write_options.count
            /\ Done => /\ issued = host.val * write_options.count
                       /\ SuccessAdded + FailureAdded = host.val * write_options.count)

C18_Witness ==
    /\ Done
    /\ write_options = Count(MaxCount)
    /\ host = Ok(MaxAddrs)
    /\ addr_idx = MaxAddrs
    /\ issued = MaxAddrs * MaxCount
    /\ FailureAdded >= 1

\* The workers of the second address are running on top of the folded
\* counts of the first.
C18_WitnessConcurrent ==
    /\ pc = "fold"
    /\ IsConcurrentKind
    /\ addr_idx = 2
    /\ BagCardinality(futs) = 2
    /\ SuccessAdded + FailureAdded >= 2
    /\ \E t \in BagToSet(futs) : t.pc = "sending"

\* C19: when the host does not resolve, write() panics at the resolution,
\* before its address loop: no send attempt is ever started, no address is
\* taken, no worker is spawned, nothing is returned, and total_bytes,
\* success_count, failure_count and throughput stay what they were when
\* write() was called - the failure is not tallied as a failed write.
C19_ResolutionFailureIsFatal ==
    /\ [](~host.ok =>
            /\ pc \in {"write", "panic"}
            /\ issued = 0
            /\ addr_idx = 0
            /\ futs = EmptyBag
            /\ ret = Pending
            /\ Counters(stats) = EntryCounters
            /\ stats.throughput = entry.throughput)
    /\ [][~host.ok => stats' = stats]_vars
    /\ [][(~host.ok /\ pc = "write") => pc' = "panic"]_vars
    /\ [][(~host.ok /\ pc = "panic") => FALSE]_vars

\* write() has panicked on a Statistics that held a failure before the
\* call, and holds that one failure still.
C19_Witness ==
    /\ host = Err
    /\ pc = "panic"
    /\ issued = 0
    /\ entry.failure_count = 1
    /\ stats.failure_count = 1
    /\ write_options = Count(MaxCount)

\* The sum, over the tasks of bag B that are in S, of a local of the task.
RECURSIVE LocalSum(_, _, _)
LocalSum(S, B, local) ==
    IF S = {} THEN 0
    ELSE LET t == CHOOSE x \in S : TRUE
         IN B[t] * t[local] + LocalSum(S \ {t}, B, local)

\* What the workers not yet folded hold in their locals.
Unfolded(local) == LocalSum(BagToSet(futs), futs, local)

\* C20: in the concurrent policies, whatever the interleaving of the
\* workers' sends and the order in which they complete, as long as no
\* JoinError has been met, what write() has added to the counters of
\* Statistics and the locals of the workers not yet folded add up to all the
\* sends that have returned: bytes of the successful ones, their number, and
\* the number of the failed ones.  Once write() has returned Ok no worker is
\* left, so what the counters have received is the sums over all workers of
\* their local tallies (on a fresh Statistics the counters are those sums);
\* under ConcurrencyWithCount(c, n) their total is c * (n / c) per address.
C20_AggregateIsSumOfWorkers ==
    /\ (IsConcurrentKind /\ pc # "err") =>
          /\ BytesAdded + Unfolded("task_bytes") = net_ok * input_len
          /\ SuccessAdded + Unfolded("success") = net_ok
          /\ FailureAdded + Unfolded("failure") = net_err
    /\ (IsConcurrentKind /\ Done) =>
          /\ futs = EmptyBag
          /\ <<BytesAdded, SuccessAdded, FailureAdded>> = <<net_ok * input_len, net_ok, net_err>>
          /\ ret = RetOk(entry.total_bytes + net_ok * input_len)
    /\ (IsConcurrentKind /\ Done /\ FreshAtEntry) =>
          /\ Counters(stats) = <<net_ok * input_len, net_ok, net_err>>
          /\ ret = RetOk(net_ok * input_len)
    /\ (IsCC /\ Done) =>
          SuccessAdded + FailureAdded = host.val * write_options.concurrency * Share

\* Two workers whose first sends both returned in the tick of their spawn.
C20_Witness ==
    /\ Done
    /\ FreshAtEntry
    /\ write_options = ConcurrencyWithDuration(2, MaxConcDur)
    /\ host = Ok(1)
    /\ stats.success_count = net_ok
    /\ stats.failure_count = net_err
    /\ net_ok >= 2
    /\ net_err >= 2

\* Both workers have their second send in flight in the tick in which they
\* were spawned: the first send of each has returned in that tick.
C20_WitnessBothFast ==
    /\ pc = "fold"
    /\ IsCWD
    /\ BagCardinality(futs) = 2
    /\ now = entry.at
    /\ \A t \in BagToSet(futs) : t.pc = "sending" /\ t.success + t.failure = 1

\* The time the call of write() at hand has taken.
WriteElapsed == now - entry.at

\* A run to one resolved address, under a policy bound by a duration alone,
\* against an endpoint that accepts every send, has returned.
DurationRunDone ==
    /\ Done
    /\ host = Ok(1)
    /\ net_err = 0
    /\ (IsDur \/ IsCWD)

\* C21 as claimed: such a run returns no earlier than d and before d + 1s,
\* so that its elapsed time cut to whole seconds is that of d, under
\* Duration(d) and under ConcurrencyWithDuration(c, d) alike.
C21_ElapsedEqualsDuration ==
    DurationRunDone =>
        /\ WriteElapsed >= write_options.duration
        /\ WriteElapsed < write_options.duration + TicksPerSec
        /\ as_secs(WriteElapsed) = as_secs(write_options.duration)

\* C21 as amended: a Duration(d) run returns no earlier than d (at once
\* when d is 0); time passes in write() only while a send is awaited, and the
\* loop is left in the very step in which a send returns with elapsed >= d,
\* so the run returns when the send in flight at d returns, however late
\* that is.  A ConcurrencyWithDuration(c, d) run with c >= 1 returns no
\* earlier than d; with c = 0 no worker is spawned and write() returns at
\* once, before d.
C21_ElapsedAtLeastDuration ==
    /\ []((Done /\ host = Ok(1) /\ IsDur) =>
            /\ WriteElapsed >= write_options.duration
            /\ write_options.duration = 0 => WriteElapsed = 0)
    /\ []((Done /\ host = Ok(1) /\ IsCWD) =>
            IF write_options.concurrency = 0
            THEN WriteElapsed = 0
            ELSE WriteElapsed >= write_options.duration)
    /\ [][(Called /\ now' # now) => SendReturns]_vars
    /\ [][(IsDur /\ SendReturns /\ now' - for_duration >= write_options.duration) =>
            (pc' = "for_addr" /\ issued' = issued)]_vars

\* A run of two workers returns at d: every send in flight at d returned then.
C21_Witness ==
    /\ DurationRunDone
    /\ write_options = ConcurrencyWithDuration(MaxConc, MaxConcDur)
    /\ WriteElapsed = MaxConcDur
    /\ SuccessAdded >= MaxConc

\* A Duration(d) run returns after d, in the next whole second: its last
\* send started before d and returned later than d.
C21_WitnessLate ==
    /\ DurationRunDone
    /\ write_options = Duration(MaxDur - 1)
    /\ WriteElapsed > MaxDur - 1
    /\ as_secs(WriteElapsed) > as_secs(MaxDur - 1)
    /\ SuccessAdded >= 2

\* A run without workers returns at once, before d.
C21_WitnessNoWorkers ==
    /\ DurationRunDone
    /\ write_options = ConcurrencyWithDuration(0, MaxConcDur)
    /\ WriteElapsed = 0

\* The calls of record_success and of record_failure made so far.
Successes == calls.record_success
Failures == calls.record_failure

\* The counters are the numbers of calls and the sum of the increments.
CountersFollowCalls ==
    /\ CallsMade = 0 => Counters(stats) = <<0, 0, 0>>
    /\ successful_requests(stats) = Successes
    /\ request_count(stats) = Successes + Failures
    /\ total_bytes(stats) = calls.sum

\* The f64 nearest to the number 100 * a / (a + b).
NearestPercentage == ToBinary64(F64Div(100 * Successes, Successes + Failures))

\* n is a power of two.
PowerOfTwo(n) == \E k \in 0..n : Pow2(k) = n

\* a / (a + b) is an f64 exactly: in lowest terms its denominator is a power
\* of two.
QuotientExact ==
    PowerOfTwo((Successes + Failures) \div Gcd(Successes, Successes + Failures))

\* 33.33333333333333, bits 4040aaaaaaaaaaaa: the f64 below the one nearest
\* to 100 / 3.
ThirdTimesHundred ==
    Binary64(1028, [i \in 1..52 |-> IF i > 4 /\ i % 2 = 1 THEN 1 ELSE 0])

\* The positive f64 values x and y are the same or adjacent.
WithinOneUlp(x, y) == x = y \/ NextUp(x) = y \/ NextUp(y) = x

\* C22 as stated: on a new Statistics all three counters are 0, and after a
\* calls of record_success, b calls of record_failure and calls of
\* increment_total whose arguments add up to t, in any order:
\* successful_requests() = a, request_count() = a + b, total_bytes() = t, and,
\* when a + b > 0, success_percentage() is 100 * a / (a + b) as f64.  It fails
\* for a = 1, b = 2.
C22_PercentageIsNearest ==
    /\ CountersFollowCalls
    /\ Successes + Failures > 0 => success_percentage(stats) = NearestPercentage

\* C22: on a new Statistics all three counters are 0, and after a calls of
\* record_success, b calls of record_failure and calls of increment_total
\* whose arguments add up to t, in any order: successful_requests() = a,
\* request_count() = a + b, total_bytes() = t, and, when a + b > 0,
\* success_percentage() is (a / (a + b)) * 100.0 with the quotient and the
\* product each rounded to f64.  That is the f64 nearest to 100 * a / (a + b)
\* when a / (a + b) is an f64 exactly (25.0 for a = 1, b = 3; 100.0 for a = 1,
\* b = 0), and that f64 or one next to it otherwise (33.33333333333333 for
\* a = 1, b = 2, where the nearest is 33.333333333333336).
C22_StatisticsCounts ==
    /\ CountersFollowCalls
    /\ Successes + Failures > 0 =>
          /\ success_percentage(stats).kind = "binary64"
          /\ QuotientExact => success_percentage(stats) = NearestPercentage
          /\ Successes > 0 => WithinOneUlp(success_percentage(stats), NearestPercentage)
          /\ Successes = 0 => success_percentage(stats) = Binary64Zero
    /\ (Successes = 1 /\ Failures = 3) =>
          success_percentage(stats) = ToBinary64(F64(25, 1))
    /\ (Successes = 1 /\ Failures = 0) =>
          success_percentage(stats) = ToBinary64(F64(100, 1))
    /\ (Successes = 1 /\ Failures = 2) =>
          success_percentage(stats) = ThirdTimesHundred

C22_Witness ==
    /\ Successes = 1
    /\ Failures = 3
    /\ calls.increment_total = 1
    /\ calls.sum = MaxPayload
    /\ total_bytes(stats) = MaxPayload
    /\ request_count(stats) = 4
    /\ success_percentage(stats) = Binary64(1027, <<1, 0, 0, 1>> \o Zeros(48))

C22_WitnessRoundedTwice ==
    /\ Successes = 1
    /\ Failures = 2
    /\ calls.sum = MaxPayload
    /\ success_percentage(stats) = ThirdTimesHundred
    /\ success_percentage(stats) # NearestPercentage
    /\ NextUp(success_percentage(stats)) = NearestPercentage

\* A read on an accepted connection, or a datagram receive, fails in this step.
ReadFails == server'.read_errs = server.read_errs + 1

\* serve() has returned because the setup (bind, local_addr) failed.
SetupFailed == server.pc = "returned" /\ ~server.listening

\* C23 (as stated): every failed read on an accepted connection and every
\* failed datagram receive is logged and leaves the serve loop running, with
\* the sink and the result untouched; a setup failure makes serve() return an
\* error with nothing accepted and nothing written.
C23_ReadFailureLogged ==
    /\ [][ReadFails =>
            /\ server'.logged = server.logged + 1
            /\ server'.pc \in {"accept", "recv"}
            /\ server'.buffer = server.buffer
            /\ server'.ret = Pending]_vars
    /\ [](SetupFailed =>
            server.ret = RetErr /\ server.accepted = 0 /\ server.buffer = <<>>)

\* C23 (amended): a failed read on an accepted TCP connection is logged, a
\* failed UDP receive is not; either leaves the serve loop waiting for the
\* next connection or datagram, with the sink and the result untouched.  A
\* setup failure makes serve() return an error with nothing accepted,
\* nothing logged and nothing written.
C23_ReadFailureNotFatal ==
    /\ [][ReadFails =>
            /\ server'.logged = server.logged + (IF server.protocol = "Tcp" THEN 1 ELSE 0)
            /\ server'.pc = (IF server.protocol = "Tcp" THEN "accept" ELSE "recv")
            /\ server'.buffer = server.buffer
            /\ server'.ret = Pending]_vars
    /\ [](SetupFailed =>
            /\ server.ret = RetErr
            /\ server.accepted = 0
            /\ server.read_errs = 0
            /\ server.logged = 0
            /\ server.buffer = <<>>)
    /\ [](server.protocol = "Udp" => server.logged = 0)

\* A datagram is forwarded to the sink after a failed receive that was not
\* logged.
C23_Witness ==
    /\ server.pc = "recv"
    /\ server.read_errs >= 1
    /\ server.logged = 0
    /\ server.errs_before_last_line >= 1
    /\ Len(server.buffer) >= 2
    /\ server.buffer[Len(server.buffer)] = "\n"

\* A connection's payload is forwarded to the sink after a logged read
\* failure on an earlier connection.
C23_WitnessTcp ==
    /\ server.pc = "accept"
    /\ server.logged >= 1
    /\ server.errs_before_last_line >= 1
    /\ Len(server.buffer) >= 2
    /\ server.buffer[Len(server.buffer)] = "\n"

\* serve() returns at once when the bind fails.
C23_WitnessBind == SetupFailed /\ server.ret = RetErr

\* C24: once the setup has succeeded, serve() neither returns nor aborts.
C24_NeverReturnsOnceBound ==
    (server.pc # "none" /\ server.listening) => server.pc \notin {"returned", "panic"}

\* serve() panics on the unreachable!() after a failed accept.
C24_AcceptPanics == server.listening /\ server.pc = "panic"

\* serve() returns the sink's error after its setup had succeeded, the sink
\* holding the text of the last payload without its line end.
C24_SinkErrorReturns ==
    /\ server.listening
    /\ server.pc = "returned"
    /\ server.ret = RetErr
    /\ Len(server.buffer) >= 1
    /\ server.buffer[Len(server.buffer)] # "\n"

\* The workers in futs stalled at a send that never returns.
HungTasks == {t \in BagToSet(futs) : t.pc = "hung"}

\* In this step exactly one worker's send hangs and every other task is
\* left as it was.
HangsOne ==
    \E t \in BagToSet(futs) :
        /\ t.pc = "sending"
        /\ futs' = replace_one(futs, t, [t EXCEPT !.pc = "hung", !.fresh = FALSE])

\* A worker is stalled by this step.
SomeWorkerStalls ==
    \E t \in BagToSet(futs') :
        t.pc = "hung" /\ CopiesIn(t, futs') > CopiesIn(t, futs)

\* A worker that has ended its loop has issued all of its attempts: its
\* share of the count, or sends until its own duration had elapsed.
WorkerRanToEnd(t) ==
    IF write_options.kind = "ConcurrencyWithCount"
    THEN t.iter = requests_per_task /\ t.success + t.failure = requests_per_task
    ELSE elapsed_ge(t.for_duration, now, write_options.duration)

\* C25: a send that never returns stalls, under a concurrent policy, only
\* the worker that issued it: the step leaves every other task as it was,
\* every other worker goes on to the end of its loop having issued all of
\* its attempts, and is folded, so that in the end only stalled workers are
\* left in futs.  Under a sequential policy the hung send stalls the run for
\* good: nothing is sent, tallied or returned after it, however far the
\* clock runs on.
C25_HungSendStallsOnlyItsWorker ==
    /\ [][SomeWorkerStalls => HangsOne]_vars
    /\ [](\A t \in BagToSet(futs) : t.pc = "done" => WorkerRanToEnd(t))
    /\ <>[](\/ pc \in {"done", "panic", "hung"}
            \/ pc = "fold" /\ futs # EmptyBag /\ BagToSet(futs) = HungTasks)
    /\ [][pc = "hung" =>
            /\ pc' = "hung"
            /\ stats' = stats
            /\ ret' = Pending
            /\ issued' = issued
            /\ IsSequentialKind]_vars

\* One worker is stalled at a hung send while the other has ended its loop
\* with every attempt of its share issued, and has been folded.
C25_Witness ==
    /\ pc = "fold"
    /\ write_options = ConcurrencyWithCount(MaxConc, MaxCount)
    /\ BagCardinality(futs) = 1
    /\ BagToSet(futs) = HungTasks
    /\ SuccessAdded + FailureAdded = MaxCount \div MaxConc

\* A Duration run is still stalled at its hung send after d has elapsed.
C25_WitnessSequential ==
    /\ pc = "hung"
    /\ write_options.kind = "Duration"
    /\ write_options.duration >= 1
    /\ elapsed_gt(for_duration, now, write_options.duration)
    /\ ret = Pending

\* C26: bytes are accumulated only on success and by the full payload
\* length.  With every successful send reporting the s bytes of the payload,
\* what write() has added to total_bytes is s times what it has added to
\* success_count, in every state of the run under every policy (a worker's
\* local sum is s times its local success count); on a Statistics fresh at
\* the call total_bytes = s * success_count, write() returns Ok(s * the
\* number of sends that succeeded), and a run whose sends all fail ends with
\* total_bytes = 0.
C26_BytesOnlyOnSuccess ==
    /\ Called => BytesAdded = input_len * SuccessAdded
    /\ FreshAtEntry => stats.total_bytes = input_len * stats.success_count
    /\ \A t \in BagToSet(futs) : t.task_bytes = input_len * t.success
    /\ (Done /\ FreshAtEntry) =>
            /\ ret = RetOk(input_len * net_ok)
            /\ stats.total_bytes = input_len * net_ok
            /\ (net_ok = 0 => stats.total_bytes = 0)

\* A run on a fresh Statistics has returned Ok with sends that succeeded
\* and sends that failed.
C26_Witness ==
    /\ Done
    /\ FreshAtEntry
    /\ input_len = MaxPayload
    /\ net_ok >= 2
    /\ net_err >= 1
    /\ stats.total_bytes = MaxPayload * net_ok

\* A concurrent run whose sends all failed has returned Ok(0).
C26_WitnessAllFail ==
    /\ Done
    /\ FreshAtEntry
    /\ IsConcurrentKind
    /\ input_len = MaxPayload
    /\ net_ok = 0
    /\ net_err >= 2
    /\ ret = RetOk(0)

\* A run with the empty payload: successes and no byte.
C26_WitnessEmptyPayload ==
    /\ Done
    /\ FreshAtEntry
    /\ input_len = 0
    /\ net_ok >= 2
    /\ stats.success_count = net_ok
    /\ ret = RetOk(0)

\* write() has been called under ConcurrencyWithCount with no workers.
ZeroWorkers ==
    /\ Called
    /\ write_options.kind = "ConcurrencyWithCount"
    /\ write_options.concurrency = 0

\* The same, against a host that resolves to at least one address.
ZeroWorkersByCount ==
    /\ ZeroWorkers
    /\ host.ok
    /\ host.val >= 1

\* C27 as claimed: under ConcurrencyWithCount(0, n) write() spawns no
\* worker, attempts no send, leaves the counters of Statistics as they were
\* and does not return Ok(0).
C27_ZeroConcurrencyNeverReturnsOk ==
    ZeroWorkers =>
        /\ futs = EmptyBag
        /\ issued = 0
        /\ Counters(stats) = EntryCounters
        /\ ret # RetOk(0)

\* C27 as amended: from_flags passes a concurrency of 0 through, and
\* ConcurrencyWithCount(0, n) is not guarded: against a host that resolves
\* to at least one address, when the arm is entered for the first address,
\* write() panics on count / concurrency with no worker spawned, no send
\* attempted and Statistics as it was, and write() never returns.  Against
\* a host that resolves to no address the arm is never entered: write()
\* returns Ok(total_bytes), which is Ok(0) on a fresh Statistics.
C27_ZeroConcurrencyPanics ==
    /\ [](\A n \in 0..MaxCount :
            from_flags(n, None, Some(0)) = ConcurrencyWithCount(0, n))
    /\ [][(ZeroWorkersByCount /\ pc = "for_addr") =>
            /\ pc' = "panic"
            /\ addr_idx' = 1
            /\ stats' = stats
            /\ futs' = futs
            /\ issued' = issued
            /\ ret' = ret]_vars
    /\ [](ZeroWorkersByCount =>
            /\ pc \in {"write", "for_addr", "panic"}
            /\ Counters(stats) = EntryCounters
            /\ stats.throughput = entry.throughput
            /\ futs = EmptyBag
            /\ issued = 0
            /\ net_ok + net_err = 0
            /\ ret = Pending)
    /\ []((ZeroWorkers /\ host = Ok(0)) =>
            /\ pc \in {"write", "for_addr", "done"}
            /\ Counters(stats) = EntryCounters
            /\ issued = 0
            /\ Done => ret = RetOk(entry.total_bytes))

\* write() has panicked on the division with a count above zero, on a
\* Statistics that held a success before the call.
C27_Witness ==
    /\ ZeroWorkersByCount
    /\ write_options.count = MaxCount
    /\ pc = "panic"
    /\ addr_idx = 1
    /\ entry.success_count = 1
    /\ Counters(stats) = <<0, 1, 0>>

\* Against a host without an address write() has returned Ok(0).
C27_WitnessNoAddress ==
    /\ ZeroWorkers
    /\ write_options.count = MaxCount
    /\ host = Ok(0)
    /\ FreshAtEntry
    /\ Done
    /\ ret = RetOk(0)

\* A worker task that can still run takes a step.
RunningWorkerStep ==
    \E t \in BagToSet(futs) :
        \/ WorkerPoll(t)
        \/ \E net \in NetOutcomes, dt \in Ticks : WorkerSendDone(t, net, dt)

\* The fold loop is left with the error of a failed join.
FoldReturnsError == pc = "fold" /\ pc' = "err"

\* C28: when the join of a worker fails, Statistics is left partially
\* updated.  The step takes the failed handle out of futs and changes
\* neither the counters, which hold what was folded before, nor any other
\* task; from then on the counters never change, so the tallies of the
\* failed worker and of the workers not yet folded are never added; the
\* handles left are never yielded, and the tasks of theirs that were still
\* running go on running: as long as one of them is at a send or unpolled,
\* a task can take a step.
C28_JoinFailureLeavesPartialTallies ==
    /\ [][FoldReturnsError =>
            \E t \in BagToSet(futs) :
                /\ t.pc = "aborted"
                /\ futs' = futs (-) SetToBag({t})
                /\ Counters(stats') = Counters(stats)
                /\ SuccessAdded + Unfolded("success") = net_ok
                /\ FailureAdded + Unfolded("failure") = net_err]_vars
    /\ [][pc = "err" =>
            /\ Counters(stats') = Counters(stats)
            /\ BagCardinality(futs') = BagCardinality(futs)
            /\ \A t \in BagToSet(futs) : t.pc \in {"done", "aborted"} => t \in BagToSet(futs')]_vars
    /\ [](pc = "err" =>
            /\ SuccessAdded + Unfolded("success") <= net_ok
            /\ FailureAdded + Unfolded("failure") <= net_err
            /\ (\E t \in BagToSet(futs) : t.pc \in {"start", "sending"})
                    => ENABLED RunningWorkerStep)

\* After the failure a worker that was not folded sits done with a success
\* of its own that Statistics, holding the counts of the workers folded
\* before, will never receive.
C28_Witness ==
    /\ pc = "err"
    /\ SuccessAdded >= 1
    /\ FailureAdded >= 1
    /\ \E t \in BagToSet(futs) : t.pc = "done" /\ t.success >= 1
    /\ SuccessAdded < net_ok

\* After the failure the successful sends of the failed worker are in
\* nobody's tally: Statistics holds those of the worker folded before.
C28_WitnessLost ==
    /\ pc = "err"
    /\ SuccessAdded >= 1
    /\ futs = EmptyBag
    /\ SuccessAdded < net_ok

\* After the failure a task that was still at a send has gone on to two
\* more sends.
C28_WitnessRunsOn ==
    /\ pc = "err"
    /\ now > entry.at
    /\ \E t \in BagToSet(futs) : t.pc = "sending" /\ t.success + t.failure >= 1

\* C29: write() never resets Statistics.  When a call of write() returns Ok,
\* be it the first call on a Statistics that already held counts or a later
\* call on the same SocketManager, each counter holds what it held when the
\* call was made plus what this call's sends added, the value returned is
\* that cumulative total_bytes, start_time is still the instant the
\* Statistics was constructed, and the throughput recorded is the cumulative
\* total over the whole seconds since that instant.
C29_WriteAccumulates ==
    /\ stats.start_time = 0
    /\ total_bytes(stats) >= entry.total_bytes
    /\ successful_requests(stats) >= entry.success_count
    /\ stats.failure_count >= entry.failure_count
    /\ Done =>
        /\ total_bytes(stats) = entry.total_bytes + input_len * net_ok
        /\ successful_requests(stats) = entry.success_count + net_ok
        /\ stats.failure_count = entry.failure_count + net_err
        /\ ret = RetOk(entry.total_bytes + input_len * net_ok)
        /\ stats.throughput =
              F64Div(entry.total_bytes + input_len * net_ok,
                     as_secs(now - stats.start_time))

\* The second call, made later than the first returned, has returned more
\* than the bytes it sent itself, with a throughput over the time since
\* construction.
C29_Witness ==
    /\ Done
    /\ entry.run = 2
    /\ entry.total_bytes > 0
    /\ net_ok >= 1
    /\ ret.val > input_len * net_ok
    /\ as_secs(now - stats.start_time) >= 1
    /\ as_secs(now - entry.at) = 0
    /\ stats.throughput = F64Div(ret.val, as_secs(now - stats.start_time))

\* The first call on a Statistics that held bytes when the SocketManager
\* was constructed has returned those bytes with its own.
C29_WitnessPrior ==
    /\ Done
    /\ entry.run = 1
    /\ calls.increment_total = 1
    /\ entry.total_bytes > 0
    /\ net_ok >= 1
    /\ input_len > 0
    /\ ret = RetOk(entry.total_bytes + input_len * net_ok)

\* The second call resolved the host to two addresses where the first had
\* resolved it to one, and returned the bytes of all three sends.
C29_WitnessHostChanged ==
    /\ Done
    /\ entry.run = 2
    /\ write_options = Count(1)
    /\ input_len = 1
    /\ host = Ok(2)
    /\ EntryCounters = <<1, 1, 0>>
    /\ ret = RetOk(3)

\* The second call failed to resolve the host and panicked, the counters
\* left as the first call returned them.
C29_WitnessSecondCallPanics ==
    /\ pc = "panic"
    /\ entry.run = 2
    /\ ~host.ok
    /\ write_options = Count(1)
    /\ Counters(stats) = <<1, 1, 0>>

====
